---- MODULE Spec2Model ----
(***************************************************************************)
(* Delphi consensus process: the ConvergenceTracker                        *)
(* (src/src/utils/convergence-tracker.ts) and the bounded round loop of    *)
(* DelphiAgent.runDelphiProcess (src/src/main.ts).                         *)
(*                                                                         *)
(* Numbers.  The metrics are JavaScript doubles.  They are modelled as     *)
(* exact fractions [n, d]; 0/0 is NaN, and every comparison with NaN is    *)
(* false, as in JavaScript.  confidence_spread is a square root: it is     *)
(* carried as its square (the variance), and spread < t is checked as      *)
(* variance < t*t.                                                         *)
(*                                                                         *)
(* Text.  A position is the sequence of its whitespace-separated tokens;   *)
(* Chars gives a token's characters, so that toLowerCase and the length    *)
(* filter of calculatePositionStability are computed.                      *)
(***************************************************************************)
EXTENDS Integers, Sequences, FiniteSets, TLC

VARIABLES
  maxRounds,        \* DelphiAgent.maxRounds
  roundHistory,     \* ConvergenceTracker.roundHistory
  expertHistories,  \* ConvergenceTracker.expertHistories (Map agent_id -> responses)
  pc,               \* position of runDelphiProcess
  runs,             \* number of runs started on this DelphiAgent
  round,            \* loop variable of runDelphiProcess
  experts,          \* DelphiAgent.experts (agent ids, in list order)
  contrarians,      \* DelphiAgent.contrarians (agent ids, in list order)
  roundResults,     \* roundResults of the current run
  expertResults,    \* per expert: "pending", "null" or the response (a round in progress)
  failedExperts,    \* failedExperts of the round in progress
  synthesis,        \* synthesis of the round in progress
  contrarianResults,\* per contrarian: "pending", "null" or the response
  executed,         \* history: round numbers begun in the current run, in order
  exit,             \* how the round loop of the current run was left
  report,           \* the DelphiReport of the last completed run, or "none"
  artifacts,        \* the files the current run has written to output/
  chat,             \* a safeChatCompletion call: its position, request and result
  search,           \* a PerplexityTool.search call: its position, attempts and result
  parse,            \* the last reply an agent has parsed and validated, with the outcome
  dominant,         \* an identifyDominantClusters call: the synthesis given, and what it returns
  settled,          \* history: the experts whose call of the round in progress has settled, in completion order
  synthesisContext, \* synthesisContext of the round in progress: the digest every expert request carries, or none
  dashboard         \* the dashboard's run registry: one run record, its process and its SSE streams

vars == <<maxRounds, roundHistory, expertHistories, pc, runs, round, experts,
          contrarians, roundResults, expertResults, failedExperts, synthesis,
          contrarianResults, executed, exit, report, artifacts, chat, search,
          parse,
          dominant,
          settled,
          synthesisContext,
          dashboard>>

trackerVars == <<roundHistory, expertHistories>>
runVars == <<pc, runs, round, experts, contrarians, roundResults, expertResults,
             failedExperts, synthesis, contrarianResults, executed, exit, report,
             artifacts, chat, search, parse,
             dominant,
             settled,
             synthesisContext,
             dashboard>>
delphiVars == <<pc, runs, round, experts, contrarians, roundResults, expertResults,
                failedExperts, synthesis, contrarianResults, executed, exit, report,
                artifacts>>

-----------------------------------------------------------------------------
(* Bounds *)

\* rounds added to a tracker that is driven directly (SpecTracker)
MaxTrackerRounds == 2
\* consensus / divergence areas of a synthesis handed to the tracker directly
MaxAreas == 1
\* rounds one DelphiAgent's tracker ingests over all its runs (Spec)
MaxHistory == 3
\* runs started on one DelphiAgent (Spec)
MaxRuns == 2

-----------------------------------------------------------------------------
(* Numbers *)

Ratio(a, b) == [n |-> a, d |-> b]
NaN == Ratio(0, 0)
IsNaN(r) == r.d = 0
\* r > a/b and r < a/b, for b > 0; false when r is NaN
GT(r, a, b) == r.d > 0 /\ r.n * b > a * r.d
LT(r, a, b) == r.d > 0 /\ r.n * b < a * r.d
IsOne(r) == r.d > 0 /\ r.n = r.d
IsZero(r) == r.d > 0 /\ r.n = 0
InUnitInterval(r) == r.d > 0 /\ r.n >= 0 /\ r.n <= r.d
\* sqrt(v) < a/b
SpreadLT(v, a, b) == v.d > 0 /\ v.n * b * b < a * a * v.d
SpreadLE(v, a, b) == v.d > 0 /\ v.n * b * b <= a * a * v.d

Max(a, b) == IF a >= b THEN a ELSE b
Min(a, b) == IF a <= b THEN a ELSE b

RECURSIVE SumSeq(_)
SumSeq(s) == IF s = <<>> THEN 0 ELSE Head(s) + SumSeq(Tail(s))

RECURSIVE MaxSeq(_)
\* Math.max(...s) over a non-empty list of naturals
MaxSeq(s) == IF Len(s) = 1 THEN s[1] ELSE Max(Head(s), MaxSeq(Tail(s)))

RECURSIVE MinSeq(_)
MinSeq(s) == IF Len(s) = 1 THEN s[1] ELSE Min(Head(s), MinSeq(Tail(s)))

Range(s) == {s[i] : i \in 1..Len(s)}

-----------------------------------------------------------------------------
(* Text *)

Lower(c) ==
  CASE c = "L" -> "l"
    [] c = "F" -> "f"
    [] OTHER -> c

\* String.prototype.toLowerCase on the characters of a token
toLowerCase(w) == [i \in 1..Len(w) |-> Lower(w[i])]

\* the characters of the tokens that occur in positions
Chars(token) ==
  CASE token = "levy" -> <<"l", "e", "v", "y">>
    [] token = "Levy" -> <<"L", "e", "v", "y">>
    [] token = "fuel" -> <<"f", "u", "e", "l">>
    [] token = "Fuel" -> <<"F", "u", "e", "l">>
    [] token = "cuts" -> <<"c", "u", "t", "s">>
    [] token = "work" -> <<"w", "o", "r", "k">>
    [] token = "rise" -> <<"r", "i", "s", "e">>
    [] token = "tax"  -> <<"t", "a", "x">>
    [] token = "now"  -> <<"n", "o", "w">>

PosLevyFuel  == <<"levy", "fuel", "tax">>
PosLevyFuelC == <<"Levy", "Fuel", "tax">>
PosLevyWork  == <<"levy", "work", "tax">>
PosCutsWork  == <<"cuts", "work", "now">>
PosShort     == <<"tax", "now", "tax">>
PosFour      == <<"levy", "fuel", "cuts", "work">>
PosFourRise  == <<"levy", "fuel", "cuts", "rise">>

\* position.length: the tokens and one separator between neighbours
PositionLength(p) ==
  SumSeq([i \in 1..Len(p) |-> Len(Chars(p[i]))]) + (Len(p) - 1)

\* z.string().min(10) of ExpertResponseSchema.position
MinPositionLength == 10
SchemaValidPosition(p) == PositionLength(p) >= MinPositionLength

-----------------------------------------------------------------------------
(* Records *)

Source(u) == [title |-> "t", url |-> u]

Response(id, pos, conf, srcs) ==
  [agent_id |-> id, position |-> pos, confidence |-> conf, sources |-> srcs]

Cluster(theme, ids, lo, hi) ==
  [theme |-> theme, expert_ids |-> ids, confidence_range |-> <<lo, hi>>]

Synthesis(rn, cl, ca, da, avg, pcount) ==
  [round_number |-> rn, clusters |-> cl, consensus_areas |-> ca,
   divergence_areas |-> da, average_confidence |-> avg,
   participation_count |-> pcount]

\* areas are opaque strings; a list of k of them
Areas(k) == [i \in 1..k |-> "area"]

-----------------------------------------------------------------------------
(* ConvergenceTracker; "this" is the tracker object: roundHistory and     *)
(* expertHistories                                                         *)

\* new Set(position.toLowerCase().split(/\s+/).filter(word => word.length > 3))
KeyTerms(position) ==
  {word \in {toLowerCase(Chars(position[i])) : i \in 1..Len(position)} :
     Len(word) > 3}

\* overlap.size / Math.max(lastWords.size, previousWords.size)
Similarity(lastPosition, previousPosition) ==
  LET lastWords == KeyTerms(lastPosition)
      previousWords == KeyTerms(previousPosition)
      overlap == lastWords \cap previousWords
  IN  Ratio(Cardinality(overlap),
            Max(Cardinality(lastWords), Cardinality(previousWords)))

\* the experts counted by calculatePositionStability(this)
EligibleExperts(this) ==
  {id \in DOMAIN this.expertHistories : Len(this.expertHistories[id]) >= 2}

IsStableExpert(this, id) ==
  LET history == this.expertHistories[id]
  IN  GT(Similarity(history[Len(history)].position,
                    history[Len(history) - 1].position), 7, 10)

calculatePositionStability_ZeroWhenVacuous(this) ==
  IF Len(this.roundHistory) < 2 THEN Ratio(1, 1)
  ELSE LET totalExperts == Cardinality(EligibleExperts(this))
           stableExperts == Cardinality({id \in EligibleExperts(this) : IsStableExpert(this, id)})
       IN  IF totalExperts > 0 THEN Ratio(stableExperts, totalExperts) ELSE Ratio(0, 1)

calculatePositionStability(this) ==
  IF Len(this.roundHistory) < 2 THEN Ratio(1, 1)
  ELSE LET totalExperts == Cardinality(EligibleExperts(this))
           stableExperts == Cardinality({id \in EligibleExperts(this) : IsStableExpert(this, id)})
       IN  IF totalExperts > 0 THEN Ratio(stableExperts, totalExperts) ELSE Ratio(1, 1)

\* The variance of the cluster midpoints of the latest round; the spread is
\* its square root.  With y_i = lo_i + hi_i and S the sum of the y_i over the
\* k clusters, the variance is SUM (k*y_i - S)^2 / (4*k^3).
calculateConfidenceSpread(this) ==
  IF Len(this.roundHistory) = 0 THEN Ratio(0, 1)
  ELSE LET currentRound == this.roundHistory[Len(this.roundHistory)]
           k == Len(currentRound.clusters)
           y == [i \in 1..k |-> currentRound.clusters[i].confidence_range[1]
                                + currentRound.clusters[i].confidence_range[2]]
           S == SumSeq(y)
       IN  IF k = 0 THEN Ratio(0, 1)
           ELSE Ratio(SumSeq([i \in 1..k |-> (k * y[i] - S) * (k * y[i] - S)]),
                      4 * k * k * k)

calculateConsensusClarity_ClusterCount(this) ==
  IF Len(this.roundHistory) = 0 THEN Ratio(0, 1)
  ELSE LET currentRound == this.roundHistory[Len(this.roundHistory)]
           ca == Len(currentRound.consensus_areas)
           A == Max(1, ca + Len(currentRound.divergence_areas))
           maxClusterSize == Len(currentRound.clusters)
           P == Max(1, currentRound.participation_count)
           avg == currentRound.average_confidence
       IN  Ratio(40 * ca * P * avg.d + 30 * maxClusterSize * A * avg.d
                   + 3 * avg.n * A * P,
                 100 * A * P * avg.d)

\* consensusRatio*0.4 + dominanceRatio*0.3 + confidenceRatio*0.3 over the
\* common denominator 100 * A * P * d, where A and P are the two Math.max
\* denominators and average_confidence = n/d.
calculateConsensusClarity(this) ==
  IF Len(this.roundHistory) = 0 THEN Ratio(0, 1)
  ELSE LET currentRound == this.roundHistory[Len(this.roundHistory)]
           ca == Len(currentRound.consensus_areas)
           A == Max(1, ca + Len(currentRound.divergence_areas))
           maxClusterSize ==
             IF Len(currentRound.clusters) > 0
             THEN MaxSeq([i \in 1..Len(currentRound.clusters) |->
                            Len(currentRound.clusters[i].expert_ids)])
             ELSE 0
           P == Max(1, currentRound.participation_count)
           avg == currentRound.average_confidence
       IN  Ratio(40 * ca * P * avg.d + 30 * maxClusterSize * A * avg.d
                   + 3 * avg.n * A * P,
                 100 * A * P * avg.d)

\* the urls of an expert's latest response
LatestUrls(this, id) ==
  LET history == this.expertHistories[id]
  IN  {history[Len(history)].sources[i].url :
         i \in 1..Len(history[Len(history)].sources)}

calculateCitationOverlap_NoSingleGuard(this) ==
  IF DOMAIN this.expertHistories = {} THEN Ratio(0, 1)
  ELSE LET withHistory == {id \in DOMAIN this.expertHistories : Len(this.expertHistories[id]) > 0}
           pairs == {p \in SUBSET withHistory : Cardinality(p) = 2}
           overlapping == {p \in pairs :
                             \E a \in p, b \in p :
                               a # b /\ LatestUrls(this, a) \cap LatestUrls(this, b) # {}}
       IN  IF Cardinality(withHistory) < 1 THEN Ratio(1, 1)
           ELSE IF Cardinality(pairs) > 0
                THEN Ratio(Cardinality(overlapping), Cardinality(pairs))
                ELSE Ratio(0, 1)

calculateCitationOverlap(this) ==
  IF DOMAIN this.expertHistories = {} THEN Ratio(0, 1)
  ELSE LET withHistory == {id \in DOMAIN this.expertHistories : Len(this.expertHistories[id]) > 0}
           pairs == {p \in SUBSET withHistory : Cardinality(p) = 2}
           overlapping == {p \in pairs :
                             \E a \in p, b \in p :
                               a # b /\ LatestUrls(this, a) \cap LatestUrls(this, b) # {}}
       IN  IF Cardinality(withHistory) < 2 THEN Ratio(1, 1)
           ELSE IF Cardinality(pairs) > 0
                THEN Ratio(Cardinality(overlapping), Cardinality(pairs))
                ELSE Ratio(0, 1)

determineTerminationReason_EarlyExitThresholds(this) ==
  LET position_stability == calculatePositionStability(this)
      consensus_clarity == calculateConsensusClarity(this)
      confidence_spread == calculateConfidenceSpread(this)
  IN  IF GT(consensus_clarity, 75, 100) /\ GT(position_stability, 8, 10)
         /\ SpreadLT(confidence_spread, 2, 1)
      THEN "consensus_reached"
      ELSE IF GT(position_stability, 9, 10) /\ LT(consensus_clarity, 4, 10)
      THEN "divergence_stable"
      ELSE "max_rounds"

\* the divergence label tested with the clarity comparison turned round
determineTerminationReason_ClarityAbove(this) ==
  LET position_stability == calculatePositionStability(this)
      consensus_clarity == calculateConsensusClarity(this)
      confidence_spread == calculateConfidenceSpread(this)
  IN  IF GT(consensus_clarity, 8, 10) /\ GT(position_stability, 8, 10)
         /\ SpreadLT(confidence_spread, 15, 10)
      THEN "consensus_reached"
      ELSE IF GT(position_stability, 9, 10) /\ GT(consensus_clarity, 5, 10)
      THEN "divergence_stable"
      ELSE "max_rounds"

determineTerminationReason(this) ==
  LET position_stability == calculatePositionStability(this)
      consensus_clarity == calculateConsensusClarity(this)
      confidence_spread == calculateConfidenceSpread(this)
  IN  IF GT(consensus_clarity, 8, 10) /\ GT(position_stability, 8, 10)
         /\ SpreadLT(confidence_spread, 15, 10)
      THEN "consensus_reached"
      ELSE IF GT(position_stability, 9, 10) /\ LT(consensus_clarity, 5, 10)
      THEN "divergence_stable"
      ELSE "max_rounds"

\* calculateMetrics(this) throws when no round is recorded
calculateMetricsThrows(this) == Len(this.roundHistory) = 0

\* the record calculateMetrics(this) returns when it does not throw
calculateMetrics(this) ==
  [position_stability |-> calculatePositionStability(this),
   confidence_spread  |-> calculateConfidenceSpread(this),
   consensus_clarity  |-> calculateConsensusClarity(this),
   citation_overlap   |-> calculateCitationOverlap(this),
   rounds_completed   |-> Len(this.roundHistory),
   termination_reason |-> determineTerminationReason(this)]

hasConverged_NonStrictSpread(this) ==
  IF Len(this.roundHistory) < 2 THEN FALSE
  ELSE LET metrics == calculateMetrics(this)
       IN  /\ GT(metrics.position_stability, 8, 10)
           /\ GT(metrics.consensus_clarity, 75, 100)
           /\ SpreadLE(metrics.confidence_spread, 2, 1)

hasConverged_NoRoundGuard(this) ==
  LET metrics == calculateMetrics(this)
  IN  /\ GT(metrics.position_stability, 8, 10)
      /\ GT(metrics.consensus_clarity, 75, 100)
      /\ SpreadLT(metrics.confidence_spread, 2, 1)

hasConverged(this) ==
  IF Len(this.roundHistory) < 2 THEN FALSE
  ELSE LET metrics == calculateMetrics(this)
       IN  /\ GT(metrics.position_stability, 8, 10)
           /\ GT(metrics.consensus_clarity, 75, 100)
           /\ SpreadLT(metrics.confidence_spread, 2, 1)

hasStableDivergence_LabelThreshold(this) ==
  IF Len(this.roundHistory) < 2 THEN FALSE
  ELSE LET metrics == calculateMetrics(this)
       IN  /\ GT(metrics.position_stability, 9, 10)
           /\ LT(metrics.consensus_clarity, 5, 10)

hasStableDivergence_IgnoresClarity(this) ==
  IF Len(this.roundHistory) < 2 THEN FALSE
  ELSE LET metrics == calculateMetrics(this)
       IN  GT(metrics.position_stability, 9, 10)

hasStableDivergence(this) ==
  IF Len(this.roundHistory) < 2 THEN FALSE
  ELSE LET metrics == calculateMetrics(this)
       IN  /\ GT(metrics.position_stability, 9, 10)
           /\ LT(metrics.consensus_clarity, 4, 10)

\* expertResponses.forEach(...) of addRound: append each response to the
\* history of its agent_id, creating the entry when absent
RECURSIVE TrackResponses(_, _)
TrackResponses(histories, expertResponses) ==
  IF expertResponses = <<>> THEN histories
  ELSE LET response == Head(expertResponses)
           id == response.agent_id
           prior == IF id \in DOMAIN histories THEN histories[id] ELSE <<>>
       IN  TrackResponses(
             [x \in DOMAIN histories \cup {id} |->
                IF x = id THEN Append(prior, response) ELSE histories[x]],
             Tail(expertResponses))

\* addRound with unshift in place of push
addRound_NewestFirst(syn, expertResponses) ==
  /\ roundHistory' = <<syn>> \o roundHistory
  /\ expertHistories' = TrackResponses(expertHistories, expertResponses)

addRound(syn, expertResponses) ==
  /\ roundHistory' = Append(roundHistory, syn)
  /\ expertHistories' = TrackResponses(expertHistories, expertResponses)

\* the tracker object
Tracker == [roundHistory |-> roundHistory, expertHistories |-> expertHistories]

getRoundHistory(this) == this.roundHistory

-----------------------------------------------------------------------------
(* The tracker driven directly, as src/src/tests/basic.test.ts drives it *)

E1 == <<0, 1>>
E2 == <<0, 2>>

TrackerPositions ==
  {PosLevyFuel, PosLevyFuelC, PosLevyWork, PosCutsWork, PosShort, PosFour,
   PosFourRise}

TrackerSourceLists ==
  {<<Source("u1"), Source("u2")>>, <<Source("u3")>>, <<Source("u1"), Source("u4")>>}

BaseSources == <<Source("u1")>>

\* an expert is absent from a round or answers with one response of rs
Optional(rs) == {<<>>} \cup {<<r>> : r \in rs}

VaryPosition(id) ==
  {Response(id, p, 8, BaseSources) :
     p \in IF id = E1 THEN TrackerPositions ELSE {PosLevyFuel}}
VarySources(id) ==
  {Response(id, PosLevyFuel, 8, s) :
     s \in IF id = E1 THEN {<<Source("u1"), Source("u2")>>}
           ELSE TrackerSourceLists \ {<<Source("u1"), Source("u2")>>}}

BaseResponses == <<Response(E1, PosLevyFuel, 8, BaseSources),
                   Response(E2, PosLevyFuel, 8, BaseSources)>>

TrackerClusterLists ==
  { <<>>,
    <<Cluster("both", <<E1, E2>>, 8, 8)>>,
    <<Cluster("one", <<E1>>, 10, 10), Cluster("two", <<E2>>, 7, 7)>>,
    <<Cluster("one", <<E1>>, 10, 10), Cluster("two", <<E2>>, 6, 6)>> }

TrackerAverages == {NaN, Ratio(2, 1), Ratio(10, 1)}

\* clusters and average confidence of the syntheses whose areas vary
TrackerShapes ==
  { <<<<Cluster("both", <<E1, E2>>, 8, 8)>>, Ratio(10, 1)>>,
    <<<<>>, Ratio(2, 1)>> }

\* the syntheses handed to addRound: the clusters and the average vary over
\* one consensus area, or the areas vary over a shape
TrackerSyntheses(rn) ==
  {Synthesis(rn, cl, Areas(1), Areas(0), avg, Len(BaseResponses)) :
     cl \in TrackerClusterLists, avg \in TrackerAverages}
  \cup {Synthesis(rn, shape[1], Areas(ca), Areas(da), shape[2], Len(BaseResponses)) :
          shape \in TrackerShapes, ca \in 0..MaxAreas, da \in 0..MaxAreas}

BaseSynthesis(rn) == Synthesis(rn, <<>>, Areas(1), Areas(1), Ratio(15, 2), 5)

\* what the tracker is fed in one addRound call: the responses vary in their
\* positions, or in their sources, or the synthesis varies
TrackerInputs(rn) ==
  {<<BaseSynthesis(rn), a \o b>> :
     a \in Optional(VaryPosition(E1)), b \in Optional(VaryPosition(E2))}
  \cup {<<BaseSynthesis(rn), a \o b>> :
          a \in Optional(VarySources(E1)), b \in Optional(VarySources(E2))}
  \cup {<<syn, BaseResponses>> : syn \in TrackerSyntheses(rn)}

NoSynthesis == [round_number |-> 0]
NoReport == [status |-> "none"]
\* no safeChatCompletion call in progress
ChatIdle == [pc |-> "idle"]
SearchIdle == [pc |-> "idle"]
NothingParsed == [schema |-> "none"]

\* no identifyDominantClusters call made
NothingIdentified == [pc |-> "idle"]

\* the registry holds no run
NoRunRecord == [pc |-> "none"]

Init ==
  /\ maxRounds = 3
  /\ roundHistory = <<>>
  /\ expertHistories = <<>>
  /\ pc = "idle"
  /\ runs = 0
  /\ round = 0
  /\ experts = <<>>
  /\ contrarians = <<>>
  /\ roundResults = <<>>
  /\ expertResults = <<>>
  /\ failedExperts = <<>>
  /\ synthesis = NoSynthesis
  /\ contrarianResults = <<>>
  /\ executed = <<>>
  /\ exit = "none"
  /\ report = NoReport
  /\ artifacts = {}
  /\ chat = ChatIdle
  /\ search = SearchIdle
  /\ parse = NothingParsed
  /\ dominant = NothingIdentified
  /\ settled = <<>>
  /\ synthesisContext = <<>>
  /\ dashboard = NoRunRecord

TrackerAddRound ==
  /\ Len(roundHistory) < MaxTrackerRounds
  /\ \E input \in TrackerInputs(Len(roundHistory) + 1) :
       addRound(input[1], input[2])
  /\ UNCHANGED <<maxRounds, runVars>>

TrackerNext == TrackerAddRound

SpecTracker == Init /\ [][TrackerNext]_vars

-----------------------------------------------------------------------------
(* OrchestratorAgent *)

\* expertResponses.filter(response => rawCluster.expert_ids.includes(response.agent_id))
ClusterExperts(rawCluster, expertResponses) ==
  SelectSeq(expertResponses, LAMBDA r : r.agent_id \in Range(rawCluster.expert_ids))

RECURSIVE processClusters(_, _)
processClusters(rawClusters, expertResponses) ==
  IF rawClusters = <<>> THEN <<>>
  ELSE LET rawCluster == Head(rawClusters)
           rest == processClusters(Tail(rawClusters), expertResponses)
           clusterExperts == ClusterExperts(rawCluster, expertResponses)
           confidenceScores == [i \in 1..Len(clusterExperts) |->
                                  clusterExperts[i].confidence]
       IN  IF rawCluster.theme = "" THEN rest
           ELSE IF Len(clusterExperts) = 0 THEN rest
           ELSE <<Cluster(rawCluster.theme, rawCluster.expert_ids,
                          MinSeq(confidenceScores), MaxSeq(confidenceScores))>>
                \o rest

\* the RoundSynthesis built from the orchestrator's parsed reply
synthesizeRound(roundNumber, expertResponses, synthesisData) ==
  LET confidenceScores == [i \in 1..Len(expertResponses) |->
                             expertResponses[i].confidence]
      averageConfidence == Ratio(SumSeq(confidenceScores), Len(confidenceScores))
  IN  Synthesis(roundNumber,
                processClusters(synthesisData.clusters, expertResponses),
                synthesisData.consensus_areas,
                synthesisData.divergence_areas,
                averageConfidence,
                Len(expertResponses))

\* the comparator with the confidence midpoint first and the size second
DominanceCompare_ConfidenceFirst(a, b) ==
  LET midA == a.confidence_range[1] + a.confidence_range[2]
      midB == b.confidence_range[1] + b.confidence_range[2]
  IN  IF midA # midB THEN midB - midA
      ELSE Len(b.expert_ids) - Len(a.expert_ids)

\* the comparator of identifyDominantClusters: a negative result puts a first
DominanceCompare(a, b) ==
  LET sizeA == Len(a.expert_ids)
      sizeB == Len(b.expert_ids)
  IN  IF sizeA # sizeB THEN sizeB - sizeA
      ELSE (b.confidence_range[1] + b.confidence_range[2])
           - (a.confidence_range[1] + a.confidence_range[2])

\* insert c into the sorted list, after the entries it does not precede
RECURSIVE InsertSorted(_, _)
InsertSorted(sorted, c) ==
  IF sorted = <<>> THEN <<c>>
  ELSE IF DominanceCompare(c, Head(sorted)) < 0 THEN <<c>> \o sorted
  ELSE <<Head(sorted)>> \o InsertSorted(Tail(sorted), c)

\* Array.prototype.sort with DominanceCompare (a stable sort)
RECURSIVE SortClusters(_)
SortClusters(clusters) ==
  IF clusters = <<>> THEN <<>>
  ELSE InsertSorted(SortClusters(SubSeq(clusters, 1, Len(clusters) - 1)),
                    clusters[Len(clusters)])

\* synthesis.clusters after identifyDominantClusters: sorted in place
ClustersAfterIdentify(syn) ==
  IF Len(syn.clusters) = 0 THEN syn.clusters ELSE SortClusters(syn.clusters)

\* the themes identifyDominantClusters returns
identifyDominantClusters(syn) ==
  IF Len(syn.clusters) = 0 THEN <<>>
  ELSE LET sortedClusters == SortClusters(syn.clusters)
       IN  [i \in 1..Min(3, Len(sortedClusters)) |-> sortedClusters[i].theme]

\* Number.prototype.toFixed(1): the nearest tenth, the larger one of two
\* equally near; "NaN" for NaN
toFixed1(r) ==
  IF IsNaN(r) THEN NaN
  ELSE Ratio((20 * r.n + r.d) \div (2 * r.d), 10)

\* formatSynthesisForReview(synthesis): what the rendered text holds of the
\* synthesis.  The round number, the participation count, the average to
\* one decimal, the areas, and of each cluster its theme, the number of its
\* experts and its confidence range; a section without entries is left out
\* of the text.  (Key insights and positions are not part of the syntheses
\* modelled here.)
formatSynthesisForReview(syn) ==
  [round_number |-> syn.round_number,
   participation |-> syn.participation_count,
   average_confidence |-> toFixed1(syn.average_confidence),
   consensus_areas |-> syn.consensus_areas,
   divergence_areas |-> syn.divergence_areas,
   clusters |-> [i \in 1..Len(syn.clusters) |->
                   [theme |-> syn.clusters[i].theme,
                    experts |-> Len(syn.clusters[i].expert_ids),
                    confidence_range |-> syn.clusters[i].confidence_range]]]

-----------------------------------------------------------------------------
(* identifyDominantClusters called on its own, on syntheses whose clusters  *)
(* vary in size, confidence range and order                                 *)

\* clusters of a synthesis handed to identifyDominantClusters
MaxClusters == 4

\* a processed cluster of n experts
SizedCluster(theme, n, lo, hi) == Cluster(theme, [i \in 1..n |-> <<0, i>>], lo, hi)

\* the clusters that occur: three sizes; among those of 5 experts, range
\* midpoints 7, 9 and 7 again (from a wider range); one of 2 experts with
\* the highest confidence, and one of a single expert
DominantClusters ==
  { SizedCluster("seven", 5, 7, 7),
    SizedCluster("nine", 5, 9, 9),
    SizedCluster("pair", 2, 10, 10),
    SizedCluster("spread", 5, 6, 8),
    SizedCluster("single", 1, 4, 5) }

\* lists of distinct clusters, in every order
DominantClusterLists ==
  {cl \in UNION {[1..n -> DominantClusters] : n \in 0..MaxClusters} :
     \A i, j \in 1..Len(cl) : i # j => cl[i] # cl[j]}

\* identifyDominantClusters(synthesis): the themes it returns, and the
\* synthesis object after the call
IdentifyDominant ==
  /\ \E cl \in DominantClusterLists :
       LET syn == Synthesis(1, cl, Areas(1), Areas(0), Ratio(8, 1), 5)
       IN  dominant' = [pc |-> "returned",
                        given |-> syn,
                        synthesis |-> [syn EXCEPT !.clusters = ClustersAfterIdentify(syn)],
                        themes |-> identifyDominantClusters(syn)]
  /\ UNCHANGED <<synthesisContext, settled, dashboard, chat, search, parse, maxRounds, trackerVars, delphiVars>>

DominantNext == IdentifyDominant

SpecDominant == Init /\ [][DominantNext]_vars

-----------------------------------------------------------------------------
(* The orchestrator's synthesis fed to the tracker: synthesizeRound,        *)
(* identifyDominantClusters and addRound on one round's responses           *)

\* an id in a reply's expert_ids that no response carries
Ghost == <<0, 9>>

\* the validated responses of a round: none, one, or two experts
SynthesisResponseLists ==
  { <<>>,
    <<Response(E1, PosLevyFuel, 8, BaseSources)>>,
    <<Response(E1, PosLevyFuel, 8, BaseSources), Response(E2, PosLevyFuel, 8, BaseSources)>>,
    <<Response(E1, PosLevyFuel, 10, BaseSources), Response(E2, PosCutsWork, 6, BaseSources)>> }

\* the clusters of the parsed reply: none, one of all responding experts,
\* one that names a further id, one per expert, one without a theme
SynthesisClusterReplies(expertResponses) ==
  LET ids == [i \in 1..Len(expertResponses) |-> expertResponses[i].agent_id]
  IN  { <<>>,
        <<[theme |-> "all", expert_ids |-> ids]>>,
        <<[theme |-> "wide", expert_ids |-> ids \o <<Ghost>>]>>,
        <<[theme |-> "one", expert_ids |-> <<E1>>], [theme |-> "two", expert_ids |-> <<E2>>]>>,
        <<[theme |-> "", expert_ids |-> ids]>> }

\* <<expertResponses, synthesisData>> of one round: the responses and the
\* clusters vary over one consensus area, or the areas vary
SynthesisInputs ==
  LET reply(cl, ca, da) ==
        [clusters |-> cl, consensus_areas |-> Areas(ca), divergence_areas |-> Areas(da)]
      full == <<Response(E1, PosLevyFuel, 8, BaseSources),
                Response(E2, PosLevyFuel, 8, BaseSources)>>
  IN  {<<rs, reply(cl, 1, 0)>> :
         rs \in SynthesisResponseLists, cl \in UNION {SynthesisClusterReplies(r) : r \in SynthesisResponseLists}}
      \cup {<<full, reply(<<[theme |-> "all", expert_ids |-> <<E1, E2>>]>>, ca, da)>> :
              ca \in 0..MaxAreas, da \in 0..MaxAreas}

\* one round without its agents: the synthesis of the responses, the sort
\* of identifyDominantClusters, and the tracker's ingestion
SynthesizeAndTrack ==
  /\ Len(roundHistory) < MaxTrackerRounds
  /\ \E input \in SynthesisInputs :
       LET syn == synthesizeRound(Len(roundHistory) + 1, input[1], input[2])
       IN  addRound([syn EXCEPT !.clusters = ClustersAfterIdentify(syn)], input[1])
  /\ UNCHANGED <<maxRounds, runVars>>

SynthesisNext == SynthesizeAndTrack

SpecSynthesis == Init /\ [][SynthesisNext]_vars

-----------------------------------------------------------------------------
(* DelphiAgent *)

Pending == [status |-> "pending"]
Null == [status |-> "null"]
Ok(r) == [status |-> "ok", response |-> r]

\* the responses pushed as the calls complete
Collected_CompletionOrder(results) ==
  IF results = expertResults /\ Len(settled) = Len(results)
  THEN LET ok == SelectSeq(settled, LAMBDA i : results[i].status = "ok")
       IN  [k \in 1..Len(ok) |-> results[ok[k]].response]
  ELSE LET ok == SelectSeq(results, LAMBDA x : x.status = "ok")
       IN  [i \in 1..Len(ok) |-> ok[i].response]

\* the non-null results, in list order
Collected(results) ==
  LET ok == SelectSeq(results, LAMBDA x : x.status = "ok")
  IN  [i \in 1..Len(ok) |-> ok[i].response]

AllSettled(results) == \A i \in 1..Len(results) : results[i].status # "pending"

CeilDiv(a, b) == (a + b - 1) \div b

\* Math.min(2, Math.ceil(expertCount / 3))
contrarianCount(expertCount) == Min(2, CeilDiv(expertCount, 3))

\* the clamp of setMaxRounds
MinRounds == 1
MaxRoundsCap == 5

\* --- inputs ---

SetMaxRoundsArgs == 0..6
ExpertCounts == {1}
RunPositions == {PosLevyFuel, PosCutsWork}

\* what the expert with this id may answer in a round
RunResponses(id) == {Response(id, p, 10, BaseSources) : p \in RunPositions}

\* how the contrarian's generateResponse settles in a round.  A contrarian
\* call that throws settles as Null (ContrarianSettle(j, Null)); the loop
\* reads nothing of a contrarian's result, and the runs explored here are
\* those in which the contrarian calls return a response.
ContrarianOutcomes(id) == {Ok([agent_id |-> id])}

\* what the orchestrator's generation call may return as parsed JSON for
\* these responses: no cluster or one cluster of all responding experts,
\* and some consensus and divergence areas; consensus without divergence is
\* reported of at least one response
SynthesisReplies(expertResponses) ==
  LET ids == [i \in 1..Len(expertResponses) |-> expertResponses[i].agent_id]
      reply(cl, ca, da) ==
        [clusters |-> cl, consensus_areas |-> Areas(ca), divergence_areas |-> Areas(da)]
  IN  { reply(<<[theme |-> "all", expert_ids |-> ids]>>, 1, 1),
        reply(<<>>, 1, 1),
        reply(<<>>, 0, 1) }
      \cup IF Len(expertResponses) > 0
           THEN {reply(<<[theme |-> "all", expert_ids |-> ids]>>, 1, 0)}
           ELSE {}

\* --- operations ---

Idle == pc \in {"idle", "done", "failed"}

\* the bounds leave room for another run of this DelphiAgent
RunAhead == runs < MaxRuns /\ Len(roundHistory) < MaxHistory

\* called between runs, as src/src/cli.ts calls it before runDelphiProcess
setMaxRounds(n) ==
  /\ Idle
  /\ RunAhead
  /\ maxRounds' = Max(MinRounds, Min(MaxRoundsCap, n))
  /\ UNCHANGED <<trackerVars, runVars>>

\* the round's digest taken from the first round of the run
BeginRound_DigestOfFirstRound(r) ==
  /\ round' = r
  /\ executed' = Append(executed, r)
  /\ expertResults' = [i \in 1..Len(experts') |-> Pending]
  /\ failedExperts' = <<>>
  /\ synthesis' = NoSynthesis
  /\ contrarianResults' = <<>>
  /\ pc' = "experts"
  /\ synthesisContext' =
       IF r > 1 THEN <<formatSynthesisForReview(roundResults[1].synthesis)>>
       ELSE <<>>

\* the state in which round r of the current run begins
BeginRound(r) ==
  /\ round' = r
  /\ executed' = Append(executed, r)
  /\ expertResults' = [i \in 1..Len(experts') |-> Pending]
  /\ failedExperts' = <<>>
  /\ synthesis' = NoSynthesis
  /\ contrarianResults' = <<>>
  /\ pc' = "experts"
  /\ synthesisContext' =
       IF r > 1 THEN <<formatSynthesisForReview(roundResults[r - 1].synthesis)>>
       ELSE <<>>

\* runDelphiProcess up to the first round: generatePersonas, the two
\* initialize calls, and the loop entry
StartRun(expertCount, personasOk) ==
  /\ Idle
  /\ runs < MaxRuns
  /\ Len(roundHistory) + maxRounds <= MaxHistory
  /\ runs' = runs + 1
  /\ roundResults' = <<>>
  /\ exit' = "none"
  /\ report' = NoReport
  /\ artifacts' = {}
  /\ UNCHANGED <<dashboard, dominant, search, parse, chat, maxRounds, trackerVars>>
  /\ IF personasOk
     THEN /\ experts' = [i \in 1..expertCount |-> <<runs + 1, i>>]
          /\ contrarians' = [j \in 1..contrarianCount(expertCount) |-> <<runs + 1, 100 + j>>]
          /\ IF 1 <= maxRounds
             THEN /\ executed' = <<1>>
                  /\ round' = 1
                  /\ expertResults' = [i \in 1..expertCount |-> Pending]
                  /\ failedExperts' = <<>>
                  /\ synthesis' = NoSynthesis
                  /\ contrarianResults' = <<>>
                  /\ pc' = "experts"
             ELSE /\ executed' = <<>>
                  /\ round' = 1
                  /\ pc' = "report"
                  /\ UNCHANGED <<expertResults, failedExperts, synthesis, contrarianResults>>
     ELSE /\ pc' = "failed"
          /\ executed' = <<>>
          /\ UNCHANGED <<round, experts, contrarians, expertResults, failedExperts,
                         synthesis, contrarianResults>>
  /\ settled' = <<>>
  /\ synthesisContext' = <<>>

ExpertSettle_FailureNotRecorded(i, outcome) ==
  /\ pc = "experts"
  /\ i \in 1..Len(experts)
  /\ expertResults[i].status = "pending"
  /\ expertResults' = [expertResults EXCEPT ![i] = outcome]
  /\ UNCHANGED <<synthesisContext, dashboard, dominant, search, parse, chat, artifacts, maxRounds, trackerVars, pc, runs, round, experts, contrarians,
                 roundResults, synthesis, contrarianResults, executed, exit, report,
                 failedExperts>>
  /\ settled' = Append(settled, i)

\* expert i's generateResponse settles: a validated response, or an error
\* caught in the round executor
ExpertSettle(i, outcome) ==
  /\ pc = "experts"
  /\ i \in 1..Len(experts)
  /\ expertResults[i].status = "pending"
  /\ expertResults' = [expertResults EXCEPT ![i] = outcome]
  /\ failedExperts' = IF outcome.status = "null"
                      THEN Append(failedExperts, [role |-> i, error |-> "error"])
                      ELSE failedExperts
  /\ UNCHANGED <<synthesisContext, dashboard, dominant, search, parse, chat, artifacts, maxRounds, trackerVars, pc, runs, round, experts, contrarians,
                 roundResults, synthesis, contrarianResults, executed, exit, report>>
  /\ settled' = Append(settled, i)

\* the synthesis started while expert calls are still pending
Synthesize_BeforeAllSettled(synthesisOk, synthesisData) ==
  /\ pc = "experts"
  /\ UNCHANGED <<dashboard, dominant, search, parse, chat, artifacts, maxRounds, trackerVars, runs, round, experts, contrarians,
                 executed, exit, report>>
  /\ IF synthesisOk
     THEN   LET syn == synthesizeRound(round, Collected(expertResults), synthesisData)
                dominantClusters == identifyDominantClusters(syn)
            IN  /\ synthesis' = [syn EXCEPT !.clusters = ClustersAfterIdentify(syn)]
                /\ contrarianResults' =
                     IF Len(dominantClusters) > 0
                     THEN [j \in 1..Len(contrarians) |-> Pending]
                     ELSE <<>>
                /\ pc' = "contrarians"
                /\ UNCHANGED <<roundResults, expertResults, failedExperts, settled,
                               synthesisContext>>
     ELSE /\ pc' = "failed"
          /\ roundResults' = <<>>
          /\ expertResults' = <<>>
          /\ failedExperts' = <<>>
          /\ settled' = <<>>
          /\ synthesisContext' = <<>>
          /\ UNCHANGED <<synthesis, contrarianResults>>

\* Phase 2 and the start of phase 3: synthesizeRound on the collected
\* responses, then identifyDominantClusters
Synthesize(synthesisOk, synthesisData) ==
  /\ pc = "experts"
  /\ AllSettled(expertResults)
  /\ UNCHANGED <<dashboard, dominant, search, parse, chat, artifacts, maxRounds, trackerVars, runs, round, experts, contrarians,
                 executed, exit, report>>
  /\ IF synthesisOk
     THEN   LET syn == synthesizeRound(round, Collected(expertResults), synthesisData)
                dominantClusters == identifyDominantClusters(syn)
            IN  /\ synthesis' = [syn EXCEPT !.clusters = ClustersAfterIdentify(syn)]
                /\ contrarianResults' =
                     IF Len(dominantClusters) > 0
                     THEN [j \in 1..Len(contrarians) |-> Pending]
                     ELSE <<>>
                /\ pc' = "contrarians"
                /\ UNCHANGED <<roundResults, expertResults, failedExperts, settled,
                               synthesisContext>>
     ELSE \* the error leaves runDelphiProcess through its catch: its locals
          \* are gone
          /\ pc' = "failed"
          /\ roundResults' = <<>>
          /\ expertResults' = <<>>
          /\ failedExperts' = <<>>
          /\ settled' = <<>>
          /\ synthesisContext' = <<>>
          /\ UNCHANGED <<synthesis, contrarianResults>>

ContrarianSettle_FailurePropagates(j, outcome) ==
  /\ pc = "contrarians"
  /\ j \in 1..Len(contrarianResults)
  /\ contrarianResults[j].status = "pending"
  /\ contrarianResults' = [contrarianResults EXCEPT ![j] = outcome]
  /\ pc' = IF outcome.status = "null" THEN "failed" ELSE pc
  /\ UNCHANGED <<synthesisContext, settled, dashboard, dominant, search, parse, chat, artifacts, maxRounds, trackerVars, runs, round, experts, contrarians,
                 roundResults, expertResults, failedExperts, synthesis, executed,
                 exit, report>>

\* contrarian j's generateResponse settles: a response, or an error caught
ContrarianSettle(j, outcome) ==
  /\ pc = "contrarians"
  /\ j \in 1..Len(contrarianResults)
  /\ contrarianResults[j].status = "pending"
  /\ contrarianResults' = [contrarianResults EXCEPT ![j] = outcome]
  /\ UNCHANGED <<synthesisContext, settled, dashboard, dominant, search, parse, chat, artifacts, maxRounds, trackerVars, pc, runs, round, experts, contrarians,
                 roundResults, expertResults, failedExperts, synthesis, executed,
                 exit, report>>

\* the round's result with the loop body after it: roundResults.push,
\* addRound and the early-termination check; the locals of the round
\* executor are gone when it has returned
FinishRound_CheckFromRoundOne ==
  /\ pc = "contrarians"
  /\ AllSettled(contrarianResults)
  /\ roundResults' = Append(roundResults,
       [expertResponses |-> Collected(expertResults),
        synthesis |-> synthesis,
        contrarianResponses |-> Collected(contrarianResults),
        failedExperts |-> failedExperts])
  /\ addRound(synthesis, Collected(expertResults))
  /\ IF hasConverged(Tracker')
     THEN pc' = "report" /\ exit' = "converged"
     ELSE IF hasStableDivergence(Tracker')
     THEN pc' = "report" /\ exit' = "diverged"
     ELSE pc' = "pause" /\ exit' = exit
  /\ expertResults' = <<>>
  /\ failedExperts' = <<>>
  /\ synthesis' = NoSynthesis
  /\ contrarianResults' = <<>>
  /\ UNCHANGED <<dashboard, dominant, search, parse, chat, artifacts, maxRounds, runs, round, experts, contrarians, executed, report>>
  /\ settled' = <<>>
  /\ synthesisContext' = <<>>

FinishRound_WritesCheckpoint ==
  /\ pc = "contrarians"
  /\ AllSettled(contrarianResults)
  /\ roundResults' = Append(roundResults,
       [expertResponses |-> Collected(expertResults),
        synthesis |-> synthesis,
        contrarianResponses |-> Collected(contrarianResults),
        failedExperts |-> failedExperts])
  /\ addRound(synthesis, Collected(expertResults))
  /\ IF round >= 2 /\ hasConverged(Tracker')
     THEN pc' = "report" /\ exit' = "converged"
     ELSE IF round >= 2 /\ hasStableDivergence(Tracker')
     THEN pc' = "report" /\ exit' = "diverged"
     ELSE pc' = "pause" /\ exit' = exit
  /\ expertResults' = <<>>
  /\ failedExperts' = <<>>
  /\ synthesis' = NoSynthesis
  /\ contrarianResults' = <<>>
  /\ artifacts' = artifacts \cup {"md"}
  /\ UNCHANGED <<dashboard, dominant, search, parse, chat, maxRounds, runs, round, experts, contrarians, executed, report>>
  /\ settled' = <<>>
  /\ synthesisContext' = <<>>

FinishRound ==
  /\ pc = "contrarians"
  /\ AllSettled(contrarianResults)
  /\ roundResults' = Append(roundResults,
       [expertResponses |-> Collected(expertResults),
        synthesis |-> synthesis,
        contrarianResponses |-> Collected(contrarianResults),
        failedExperts |-> failedExperts])
  /\ addRound(synthesis, Collected(expertResults))
  /\ IF round >= 2 /\ hasConverged(Tracker')
     THEN pc' = "report" /\ exit' = "converged"
     ELSE IF round >= 2 /\ hasStableDivergence(Tracker')
     THEN pc' = "report" /\ exit' = "diverged"
     ELSE pc' = "pause" /\ exit' = exit
  /\ expertResults' = <<>>
  /\ failedExperts' = <<>>
  /\ synthesis' = NoSynthesis
  /\ contrarianResults' = <<>>
  /\ UNCHANGED <<dashboard, dominant, search, parse, chat, artifacts, maxRounds, runs, round, experts, contrarians, executed, report>>
  /\ settled' = <<>>
  /\ synthesisContext' = <<>>

\* the pause between rounds elapses: round++ and the loop test
Pause_OneRoundMore ==
  /\ pc = "pause"
  /\ UNCHANGED <<settled, dashboard, dominant, search, parse, chat, artifacts, maxRounds, trackerVars, runs, experts, contrarians, roundResults, report>>
  /\ IF round + 1 <= maxRounds + 1
     THEN BeginRound(round + 1) /\ exit' = exit
     ELSE /\ round' = round + 1
          /\ pc' = "report"
          /\ exit' = "max_rounds_reached"
          /\ UNCHANGED <<expertResults, failedExperts, synthesis, contrarianResults,
                         executed, synthesisContext>>

Pause ==
  /\ pc = "pause"
  /\ UNCHANGED <<settled, dashboard, dominant, search, parse, chat, artifacts, maxRounds, trackerVars, runs, experts, contrarians, roundResults, report>>
  /\ IF round + 1 <= maxRounds
     THEN BeginRound(round + 1) /\ exit' = exit
     ELSE /\ round' = round + 1
          /\ pc' = "report"
          /\ exit' = "max_rounds_reached"
          /\ UNCHANGED <<expertResults, failedExperts, synthesis, contrarianResults,
                         executed, synthesisContext>>

RECURSIVE Flatten(_)
Flatten(ss) == IF ss = <<>> THEN <<>> ELSE Head(ss) \o Flatten(Tail(ss))

\* the cluster the reduce of identifyDissentingViews ends with: the first
\* of the largest clusters, or a cluster without experts when there is none
LargestCluster(syn) ==
  IF Len(syn.clusters) > 0
  THEN LET best == MaxSeq([i \in 1..Len(syn.clusters) |->
                             Len(syn.clusters[i].expert_ids)])
           first == CHOOSE i \in 1..Len(syn.clusters) :
                      /\ Len(syn.clusters[i].expert_ids) = best
                      /\ \A k \in 1..(i - 1) : Len(syn.clusters[k].expert_ids) # best
       IN  syn.clusters[first]
  ELSE [expert_ids |-> <<>>]

identifyDissentingViews(syn, responses) ==
  LET largestCluster == LargestCluster(syn)
      dissentingExperts ==
        SelectSeq(responses,
                  LAMBDA response : response.agent_id \notin Range(largestCluster.expert_ids))
  IN  [i \in 1..Len(dissentingExperts) |->
         [position |-> dissentingExperts[i].position,
          expert_ids |-> <<dissentingExperts[i].agent_id>>,
          sources |-> dissentingExperts[i].sources]]

FinalReport_AllRoundsPositions(results, this) ==
  LET finalRound == results[Len(results)]
      allExpertResponses == Flatten([k \in 1..Len(results) |-> results[k].expertResponses])
  IN  [status |-> "generated",
       expert_positions |-> allExpertResponses,
       contrarian_observations |->
         Flatten([k \in 1..Len(results) |-> results[k].contrarianResponses]),
       dissenting_views |-> identifyDissentingViews(finalRound.synthesis, allExpertResponses),
       convergence_analysis |-> calculateMetrics(this),
       round_history |-> [k \in 1..Len(results) |-> results[k].synthesis],
       failed_experts |->
         Flatten([k \in 1..Len(results) |-> results[k].failedExperts])]

\* the DelphiReport generateFinalReportWithSupport assembles
FinalReport(results, this) ==
  LET finalRound == results[Len(results)]
      allExpertResponses == Flatten([k \in 1..Len(results) |-> results[k].expertResponses])
  IN  [status |-> "generated",
       expert_positions |-> finalRound.expertResponses,
       contrarian_observations |->
         Flatten([k \in 1..Len(results) |-> results[k].contrarianResponses]),
       dissenting_views |-> identifyDissentingViews(finalRound.synthesis, allExpertResponses),
       convergence_analysis |-> calculateMetrics(this),
       round_history |-> [k \in 1..Len(results) |-> results[k].synthesis],
       failed_experts |->
         Flatten([k \in 1..Len(results) |-> results[k].failedExperts])]

\* how the end of a run goes: the consensus summary is a generation call
\* that may throw, and each of the three writeFileSync calls may throw
ReportOutcomes == {"ok", "summary_fails", "md_fails", "json_fails", "logs_fails"}

\* the files written before the run ends with this outcome: saveReport
\* writes the markdown file, then the JSON file; saveAgentLogs the log file
FilesWritten(outcome) ==
  CASE outcome = "ok" -> {"md", "json", "logs"}
    [] outcome = "logs_fails" -> {"md", "json"}
    [] outcome = "json_fails" -> {"md"}
    [] OTHER -> {}

\* generateFinalReportWithSupport, saveReport and saveAgentLogs.  The run
\* returns the report or throws: its locals are gone.
GenerateReport(outcome) ==
  /\ pc = "report"
  /\ UNCHANGED <<synthesisContext, settled, dashboard, dominant, search, parse, chat, maxRounds, trackerVars, runs, round, experts, contrarians,
                 expertResults, failedExperts, synthesis,
                 contrarianResults, executed, exit>>
  /\ roundResults' = <<>>
  /\ IF calculateMetricsThrows(Tracker) \/ Len(roundResults) = 0
     THEN /\ report' = report
          /\ artifacts' = {}
          /\ pc' = "failed"
     ELSE /\ artifacts' = FilesWritten(outcome)
          /\ IF outcome = "ok"
             THEN /\ report' = FinalReport(roundResults, Tracker)
                  /\ pc' = "done"
             ELSE /\ report' = report
                  /\ pc' = "failed"

Next ==
  \/ \E n \in SetMaxRoundsArgs : setMaxRounds(n)
  \/ \E expertCount \in ExpertCounts, personasOk \in BOOLEAN :
       StartRun(expertCount, personasOk)
  \/ \E i \in 1..Len(experts) :
       \E outcome \in {Null} \cup {Ok(r) : r \in RunResponses(experts[i])} :
         ExpertSettle(i, outcome)
  \/ \E synthesisOk \in BOOLEAN :
       \E synthesisData \in SynthesisReplies(Collected(expertResults)) :
         Synthesize(synthesisOk, synthesisData)
  \/ \E j \in 1..Len(contrarianResults) :
       \E outcome \in ContrarianOutcomes(contrarians[j]) :
         ContrarianSettle(j, outcome)
  \/ FinishRound
  \/ Pause
  \/ \E outcome \in {"ok", "summary_fails"} : GenerateReport(outcome)

Spec == Init /\ [][Next]_vars

\* a step of a run in progress, other than the end of a round and the report
RoundStep ==
  \/ \E i \in 1..Len(experts) :
       \E outcome \in {Null} \cup {Ok(r) : r \in RunResponses(experts[i])} :
         ExpertSettle(i, outcome)
  \/ \E synthesisOk \in BOOLEAN :
       \E synthesisData \in SynthesisReplies(Collected(expertResults)) :
         Synthesize(synthesisOk, synthesisData)
  \/ \E j \in 1..Len(contrarianResults) :
       \E outcome \in ContrarianOutcomes(contrarians[j]) :
         ContrarianSettle(j, outcome)
  \/ Pause

\* a run in progress has a step to take: a call to settle, the synthesis,
\* the pause, the end of the round (FinishRound, when every contrarian call
\* has settled) or the report (GenerateReport, at "report")
StepAvailable ==
  \/ ENABLED RoundStep
  \/ pc = "contrarians" /\ AllSettled(contrarianResults)
  \/ pc = "report"

\* The runs in which every external call whose failure is not caught returns
\* a usable result: persona generation, the orchestrator's synthesis and the
\* consensus summary succeed; experts and contrarians may still fail.
NextReturns ==
  \/ \E n \in SetMaxRoundsArgs : setMaxRounds(n)
  \/ \E expertCount \in ExpertCounts : StartRun(expertCount, TRUE)
  \/ \E i \in 1..Len(experts) :
       \E outcome \in {Null} \cup {Ok(r) : r \in RunResponses(experts[i])} :
         ExpertSettle(i, outcome)
  \/ \E synthesisData \in SynthesisReplies(Collected(expertResults)) :
       Synthesize(TRUE, synthesisData)
  \/ \E j \in 1..Len(contrarianResults) :
       \E outcome \in ContrarianOutcomes(contrarians[j]) :
         ContrarianSettle(j, outcome)
  \/ FinishRound
  \/ Pause
  \/ GenerateReport("ok")

SpecReturns == Init /\ [][NextReturns]_vars

-----------------------------------------------------------------------------
(* Runs of two experts with the default maxRounds, in which every call may  *)
(* fail: an expert's, a contrarian's, persona generation, the synthesis,    *)
(* the consensus summary, and each write of an output file                  *)

FaultExpertCount == 2

\* an expert's call fails, or returns its one answer
FaultExpertOutcomes(id) == {Null, Ok(Response(id, PosLevyFuel, 10, BaseSources))}

\* a contrarian's call fails, or returns its response
FaultContrarianOutcomes(id) == {Null, Ok([agent_id |-> id, critique |-> round])}

\* the parsed reply of the orchestrator: one cluster of all responding
\* experts, one cluster of the first of them only, or no cluster
FaultReplies(expertResponses) ==
  LET ids == [i \in 1..Len(expertResponses) |-> expertResponses[i].agent_id]
      reply(cl, ca, da) ==
        [clusters |-> cl, consensus_areas |-> Areas(ca), divergence_areas |-> Areas(da)]
  IN  { reply(<<[theme |-> "all", expert_ids |-> ids]>>, 1, 1),
        reply(<<[theme |-> "first", expert_ids |-> SubSeq(ids, 1, Min(1, Len(ids)))]>>, 1, 1),
        reply(<<>>, 0, 1) }

FaultsNext ==
  \/ \E personasOk \in BOOLEAN : StartRun(FaultExpertCount, personasOk)
  \/ \E i \in 1..Len(experts) :
       \E outcome \in FaultExpertOutcomes(experts[i]) : ExpertSettle(i, outcome)
  \/ \E synthesisOk \in BOOLEAN :
       \E synthesisData \in FaultReplies(Collected(expertResults)) :
         Synthesize(synthesisOk, synthesisData)
  \/ \E j \in 1..Len(contrarianResults) :
       \E outcome \in FaultContrarianOutcomes(contrarians[j]) :
         ContrarianSettle(j, outcome)
  \/ FinishRound
  \/ Pause
  \/ \E outcome \in ReportOutcomes : GenerateReport(outcome)

SpecFaults == Init /\ [][FaultsNext]_vars

-----------------------------------------------------------------------------
(* safeChatCompletion (src/src/utils/openai-helpers.ts): the request r, the *)
(* transform/retry loop and runOnce.  A value that may be undefined is a    *)
(* sequence of length 0 or 1; a content string is the sequence of its       *)
(* characters; an error message is the set of the phrases it contains       *)

\* the attempts of the loop
MaxAttempts == 5

Whitespace == {" "}

\* String.prototype.trim
RECURSIVE TrimStart(_)
TrimStart(cs) ==
  IF cs # <<>> /\ Head(cs) \in Whitespace THEN TrimStart(Tail(cs)) ELSE cs

RECURSIVE TrimEnd(_)
TrimEnd(cs) ==
  IF cs # <<>> /\ cs[Len(cs)] \in Whitespace
  THEN TrimEnd(SubSeq(cs, 1, Len(cs) - 1))
  ELSE cs

Trim(cs) == TrimEnd(TrimStart(cs))

Completion(choices) == [choices |-> choices]
Choice(content) == [message |-> <<[content |-> content]>>]

\* what the service may answer with: text, text in spaces, no choices, a
\* choice without a message, and null, empty or blank content
ChatCompletions ==
  {Completion(<<Choice(<<<<"o", "k">>>>)>>),
   Completion(<<Choice(<<<<" ", "o", "k", " ">>>>)>>),
   Completion(<<>>),
   Completion(<<[message |-> <<>>]>>),
   Completion(<<Choice(<<>>)>>),
   Completion(<<Choice(<<<<>>>>)>>),
   Completion(<<Choice(<<<<" ", " ">>>>)>>)}

ApiError(code, param, message) == [code |-> code, param |-> param, message |-> message]

\* the errors the service may answer with
ChatErrors ==
  {ApiError("unsupported_value", "temperature", {}),
   ApiError("unsupported_parameter", "max_tokens", {}),
   ApiError("unsupported_parameter", "max_completion_tokens", {}),
   ApiError("model_not_found", "model", {}),
   ApiError("none", "none", {"responses api"}),
   ApiError("rate_limit_exceeded", "none", {}),
   ApiError("context_length_exceeded", "messages", {"model"})}

Threw(err) == [status |-> "error", error |-> err]

\* the outcomes of one openai.chat.completions.create
CreateOutcomes == {Ok(res) : res \in ChatCompletions} \cup {Threw(err) : err \in ChatErrors}

\* the requests the agents pass
ChatRequests ==
  {q \in [model : {<<>>, <<"gpt-4o">>, <<"gpt-5">>}, temperature : BOOLEAN,
          max_tokens : BOOLEAN, max_completion_tokens : BOOLEAN] :
     ~ (q.max_tokens /\ q.max_completion_tokens)}

\* noChoices || noMessage || noContent of runOnce
NoUsableText(res) ==
  LET noChoices == Len(res.choices) = 0
      noMessage == noChoices \/ Len(res.choices[1].message) = 0
      noContent == \/ noMessage
                   \/ Len(res.choices[1].message[1].content) = 0
                   \/ res.choices[1].message[1].content[1] = <<>>
                   \/ Trim(res.choices[1].message[1].content[1]) = <<>>
  IN  noChoices \/ noMessage \/ noContent

\* the call has returned res / has thrown err
Returned(r, res) == [pc |-> "returned", r |-> r, attempt |-> 0, res |-> <<res>>, err |-> <<>>]
Thrown(r, err) == [pc |-> "thrown", r |-> r, attempt |-> 0, res |-> <<>>, err |-> <<err>>]
Running(at, r, attempt) == [pc |-> at, r |-> r, attempt |-> attempt, res |-> <<>>, err |-> <<>>]

Continue_OneMoreAttempt(r, attempt) ==
  IF attempt + 1 <= MaxAttempts
  THEN Running("create", r, attempt + 1)
  ELSE Thrown(r, ApiError("none", "none", {"failed after multiple transformation attempts"}))

\* continue: attempt++ and the loop test; after the last attempt the
\* throw that follows the loop
Continue(r, attempt) ==
  IF attempt + 1 < MaxAttempts
  THEN Running("create", r, attempt + 1)
  ELSE Thrown(r, ApiError("none", "none", {"failed after multiple transformation attempts"}))

Catch_RetriesAnyError(r, attempt, err) ==
  LET code == err.code
      param == err.param
      msg == err.message
  IN  IF /\ (code = "unsupported_value" \/ "unsupported" \in msg \/ "does not support" \in msg)
         /\ (param = "temperature" \/ "temperature" \in msg)
         /\ r.temperature
      THEN Continue([r EXCEPT !.temperature = FALSE], attempt)
      ELSE IF /\ (code = "unsupported_parameter" \/ "unsupported parameter" \in msg)
              /\ (param = "max_tokens" \/ "max_tokens" \in msg)
              /\ r.max_tokens
      THEN Continue([r EXCEPT !.max_tokens = FALSE, !.max_completion_tokens = TRUE], attempt)
      ELSE IF /\ (code = "unsupported_parameter" \/ "unsupported parameter" \in msg)
              /\ (param = "max_completion_tokens" \/ "max_completion_tokens" \in msg)
              /\ r.max_completion_tokens
      THEN Continue([r EXCEPT !.max_completion_tokens = FALSE, !.max_tokens = TRUE], attempt)
      ELSE IF \/ param = "model"
              \/ code = "model_not_found"
              \/ ("model" \in msg /\ ({"not found", "does not exist", "unknown", "unsupported"}
                                        \cap msg # {}))
      THEN Continue([r EXCEPT !.model = <<"gpt-4o">>], attempt)
      ELSE IF {"responses api", "use the responses", "responses endpoint"} \cap msg # {}
      THEN Continue([r EXCEPT !.model = <<"gpt-4o">>], attempt)
      ELSE Continue(r, attempt)

\* the catch block of the loop
Catch(r, attempt, err) ==
  LET code == err.code
      param == err.param
      msg == err.message
  IN  IF /\ (code = "unsupported_value" \/ "unsupported" \in msg \/ "does not support" \in msg)
         /\ (param = "temperature" \/ "temperature" \in msg)
         /\ r.temperature
      THEN Continue([r EXCEPT !.temperature = FALSE], attempt)
      ELSE IF /\ (code = "unsupported_parameter" \/ "unsupported parameter" \in msg)
              /\ (param = "max_tokens" \/ "max_tokens" \in msg)
              /\ r.max_tokens
      THEN Continue([r EXCEPT !.max_tokens = FALSE, !.max_completion_tokens = TRUE], attempt)
      ELSE IF /\ (code = "unsupported_parameter" \/ "unsupported parameter" \in msg)
              /\ (param = "max_completion_tokens" \/ "max_completion_tokens" \in msg)
              /\ r.max_completion_tokens
      THEN Continue([r EXCEPT !.max_completion_tokens = FALSE, !.max_tokens = TRUE], attempt)
      ELSE IF \/ param = "model"
              \/ code = "model_not_found"
              \/ ("model" \in msg /\ ({"not found", "does not exist", "unknown", "unsupported"}
                                        \cap msg # {}))
      THEN Continue([r EXCEPT !.model = <<"gpt-4o">>], attempt)
      ELSE IF {"responses api", "use the responses", "responses endpoint"} \cap msg # {}
      THEN Continue([r EXCEPT !.model = <<"gpt-4o">>], attempt)
      ELSE Thrown(r, err)

\* history of the call: the creates issued so far and the outcome settled
\* last
Issued(next, requests, last) ==
  [pc |-> next.pc, r |-> next.r, attempt |-> next.attempt, res |-> next.res,
   err |-> next.err,
   requests |-> IF next.pc \in {"create", "fallback"} THEN requests + 1 ELSE requests,
   last |-> last]

\* a call of safeChatCompletion: r is a copy of req and the loop begins
safeChatCompletion(req) ==
  /\ chat.pc \in {"idle", "returned", "thrown"}
  /\ chat' = Issued(Running("create", req, 0), 0, <<>>)
  /\ UNCHANGED <<synthesisContext, settled, dashboard, dominant, search, parse, maxRounds, trackerVars, delphiVars>>

runOnce_NoFallback(outcome) ==
  /\ chat.pc = "create"
  /\ chat' =
       Issued(IF outcome.status = "ok"
              THEN Returned(chat.r, outcome.response)
              ELSE Catch(chat.r, chat.attempt, outcome.error),
              chat.requests, <<outcome>>)
  /\ UNCHANGED <<synthesisContext, settled, dashboard, dominant, search, parse, maxRounds, trackerVars, delphiVars>>

\* runOnce: the service settles the create of line 21
runOnce(outcome) ==
  /\ chat.pc = "create"
  /\ chat' =
       Issued(IF outcome.status = "ok"
              THEN IF /\ NoUsableText(outcome.response)
                      /\ chat.r.model # <<>>
                      /\ chat.r.model # <<"gpt-4o">>
                   THEN Running("fallback", [chat.r EXCEPT !.model = <<"gpt-4o">>],
                                chat.attempt)
                   ELSE Returned(chat.r, outcome.response)
              ELSE Catch(chat.r, chat.attempt, outcome.error),
              chat.requests, <<outcome>>)
  /\ UNCHANGED <<synthesisContext, settled, dashboard, dominant, search, parse, maxRounds, trackerVars, delphiVars>>

\* runOnce: the service settles the create of the fallback to gpt-4o
runOnceFallback(outcome) ==
  /\ chat.pc = "fallback"
  /\ chat' =
       Issued(IF outcome.status = "ok"
              THEN Returned(chat.r, outcome.response)
              ELSE Catch(chat.r, chat.attempt, outcome.error),
              chat.requests, <<outcome>>)
  /\ UNCHANGED <<synthesisContext, settled, dashboard, dominant, search, parse, maxRounds, trackerVars, delphiVars>>

ChatNext ==
  \/ \E req \in ChatRequests : safeChatCompletion(req)
  \/ \E outcome \in CreateOutcomes : runOnce(outcome)
  \/ \E outcome \in CreateOutcomes : runOnceFallback(outcome)

SpecChat == Init /\ [][ChatNext]_vars

-----------------------------------------------------------------------------
(* The operator's interrupt (src/src/cli.ts): the SIGINT handler runs       *)
(* between two steps of a run, never inside one, and ends the process.  The *)
(* last step of a run, from the reply to the consensus summary to the       *)
(* return of the report, has no wait on the outside world in it: the writes *)
(* of saveReport and saveAgentLogs are synchronous (GenerateReport)         *)

Interrupt ==
  /\ pc \in {"experts", "contrarians", "pause", "report"}
  /\ pc' = "interrupted"
  /\ UNCHANGED <<synthesisContext, settled, dashboard, dominant, search, parse, chat, artifacts, maxRounds, trackerVars, runs, round,
                 experts, contrarians, roundResults, expertResults, failedExperts,
                 synthesis, contrarianResults, executed, exit, report>>

InterruptNext == FaultsNext \/ Interrupt

SpecInterrupt == Init /\ [][InterruptNext]_vars

-----------------------------------------------------------------------------
(* PerplexityTool.search (src/src/tools/perplexity.ts): the retry loop, the *)
(* response interceptor of the client, and the result built from a reply.   *)
(* An error message is the set of the phrases it contains.                  *)

maxRetries == 3

\* an error of the HTTP client: a response (status, data.error) when the
\* service answered, and a message
HttpError(response, message) == [response |-> response, message |-> message]
HttpResponse(status, error) == [status |-> status, error |-> error]

\* what client.post may reject with before the interceptor
HttpErrors ==
  {HttpError(<<>>, {"timeout", "exceeded"}),
   HttpError(<<>>, {"network error"}),
   HttpError(<<HttpResponse(503, <<>>)>>, {"request failed", "status code"}),
   HttpError(<<HttpResponse(500, <<{"internal error"}>>)>>, {"request failed", "status code"}),
   HttpError(<<HttpResponse(504, <<{"upstream", "timeout"}>>)>>, {"request failed", "status code"}),
   HttpError(<<HttpResponse(400, <<{"bad request"}>>)>>, {"request failed", "status code"}),
   HttpError(<<HttpResponse(401, <<{"session", "timeout"}>>)>>, {"request failed", "status code"}),
   HttpError(<<HttpResponse(429, <<{"[object Object]"}>>)>>, {"request failed", "status code"})}

\* the rejection handler of the response interceptor: a new Error whose
\* message holds response.data.error, or the client's message without it;
\* the new Error has no response
Intercept(error) ==
  HttpError(<<>>,
            {"perplexity api failed"} \cup
            (IF Len(error.response) = 1 /\ Len(error.response[1].error) = 1
             THEN error.response[1].error[1]
             ELSE error.message))

\* an entry of data.citations: a url string, an object with an optional
\* title and url, or null
CitationString(url) == [kind |-> "string", title |-> <<>>, url |-> <<url>>]
CitationObject(title, url) == [kind |-> "object", title |-> title, url |-> url]
CitationNull == [kind |-> "null", title |-> <<>>, url |-> <<>>]

\* sanitizeCitations; a null entry makes it throw a TypeError
SanitizeThrows(citations) ==
  Len(citations) = 1 /\ \E i \in 1..Len(citations[1]) : citations[1][i].kind = "null"

sanitizeCitations(citations) ==
  LET list == IF Len(citations) = 1 THEN citations[1] ELSE <<>>
  IN  [index \in 1..Len(list) |->
         IF list[index].kind = "string"
         THEN [title |-> <<"Source", index>>, url |-> list[index].url[1]]
         ELSE [title |-> IF Len(list[index].title) = 1 THEN list[index].title[1]
                         ELSE <<"Source", index>>,
               url |-> IF Len(list[index].url) = 1 THEN list[index].url[1] ELSE ""]]

\* the data of a reply: citations and search_results may be absent
SearchData(citations, results) == [citations |-> citations, search_results |-> results]

UpstreamResult(n) == [title |-> <<<<"Result", n>>>>, url |-> <<"r">>]

\* the replies of the service: no data at all, or data with and without
\* citations and search results
SearchReplies ==
  {<<>>} \cup
  {<<SearchData(c, r)>> :
     c \in {<<>>, <<<<>>>>, <<<<CitationString("u1")>>>>,
             <<<<CitationObject(<<<<"T", 1>>>>, <<"u1">>), CitationString("u2")>>>>,
             <<<<CitationObject(<<>>, <<>>), CitationString("u2"), CitationString("u3")>>>>,
             <<<<CitationNull>>>>},
     r \in {<<>>, <<<<>>>>, <<<<UpstreamResult(1)>>>>,
             <<<<[title |-> <<>>, url |-> <<"r">>]>>>>,
             <<<<UpstreamResult(1), UpstreamResult(2)>>>>}}

\* the result search builds from data (lines 89-122)
SearchResult(data) ==
  LET citations == sanitizeCitations(data.citations)
      upstream == IF Len(data.search_results) = 1 THEN data.search_results[1] ELSE <<>>
      mapped == [i \in 1..Len(upstream) |->
                   [title |-> IF Len(upstream[i].title) = 1 THEN upstream[i].title[1]
                              ELSE <<"Untitled", 0>>,
                    url |-> IF Len(upstream[i].url) = 1 THEN upstream[i].url[1] ELSE "",
                    relevance_score |-> 8]]
      searchResults ==
        IF Len(mapped) = 0 /\ Len(citations) > 0
        THEN [index \in 1..Len(citations) |->
                [title |-> citations[index].title,
                 url |-> citations[index].url,
                 relevance_score |-> 7]]
        ELSE mapped
  IN  [citations |-> citations, searchResults |-> searchResults]

\* the TypeError of reading a property of an absent value
TypeError == HttpError(<<>>, {"cannot read properties"})

SearchRunning(at, attempt, requests, delays) ==
  [pc |-> at, attempt |-> attempt, requests |-> requests, delays |-> delays,
   result |-> <<>>, error |-> <<>>, last |-> <<>>]

\* the catch block of the loop (lines 123-138): retry after the backoff on
\* a timeout or a 5xx response when an attempt is left, throw otherwise
SearchCatch(this, error) ==
  LET isTimeout == "timeout" \in error.message
      is5xx == /\ Len(error.response) = 1
               /\ error.response[1].status >= 500
               /\ error.response[1].status < 600
  IN  IF (isTimeout \/ is5xx) /\ this.attempt < maxRetries - 1
      THEN [this EXCEPT !.pc = "backoff", !.error = <<error>>,
                        !.delays = Append(this.delays, 1000 * 2 ^ this.attempt)]
      ELSE [this EXCEPT !.pc = "thrown", !.error = <<error>>]

\* a call of search: the first request goes out
SearchCall ==
  /\ search.pc \in {"idle", "returned", "thrown"}
  /\ search' = SearchRunning("request", 0, 1, <<>>)
  /\ UNCHANGED <<synthesisContext, settled, dashboard, dominant, chat, parse, maxRounds, trackerVars, delphiVars>>

\* client.post settles: a reply, from which the result is built, or a
\* rejection, which passes the interceptor and reaches the catch block;
\* last is history: the outcome that settled
SearchSettle(outcome) ==
  /\ search.pc = "request"
  /\ search' =
       LET this == [search EXCEPT !.last = <<outcome>>]
       IN  IF outcome.status = "ok"
           THEN IF \/ outcome.response = <<>>
                   \/ SanitizeThrows(outcome.response[1].citations)
                THEN SearchCatch(this, TypeError)
                ELSE [this EXCEPT !.pc = "returned",
                                  !.result = <<SearchResult(outcome.response[1])>>,
                                  !.error = <<>>]
           ELSE SearchCatch(this, Intercept(outcome.error))
  /\ UNCHANGED <<synthesisContext, settled, dashboard, dominant, chat, parse, maxRounds, trackerVars, delphiVars>>

\* the backoff delay elapses: attempt++, the loop test and the next request
SearchBackoffElapsed ==
  /\ search.pc = "backoff"
  /\ search' =
       IF search.attempt + 1 < maxRetries
       THEN [search EXCEPT !.pc = "request", !.attempt = search.attempt + 1,
                           !.requests = search.requests + 1]
       ELSE [search EXCEPT !.pc = "thrown", !.attempt = search.attempt + 1]
  /\ UNCHANGED <<synthesisContext, settled, dashboard, dominant, chat, parse, maxRounds, trackerVars, delphiVars>>

SearchOutcomes == {Ok(d) : d \in SearchReplies} \cup {Threw(e) : e \in HttpErrors}

SearchNext ==
  \/ SearchCall
  \/ \E outcome \in SearchOutcomes : SearchSettle(outcome)
  \/ SearchBackoffElapsed

SpecSearch == Init /\ [][SearchNext]_vars

-----------------------------------------------------------------------------
(* The zod schemas of src/src/types/index.ts and the parsing of an agent's  *)
(* final reply.  A JSON value carries its type t and, by type, its         *)
(* characters s, its number n or its elements es; a url is its scheme and   *)
(* its host                                                                 *)

JString(cs) == [t |-> "string", s |-> cs, n |-> 0, es |-> <<>>]
JNumber(n) == [t |-> "number", s |-> <<>>, n |-> n, es |-> <<>>]
JArray(es) == [t |-> "array", s |-> <<>>, n |-> 0, es |-> es]
JUndefined == [t |-> "undefined", s |-> <<>>, n |-> 0, es |-> <<>>]

\* a string of n characters
Str(n) == [i \in 1..n |-> "x"]

Url(scheme, host) == [scheme |-> scheme, host |-> host]

\* a string whose text is to be read as a url
JUrl(scheme, host) == [t |-> "string", u |-> Url(scheme, host)]

\* z.string().url(): the text parses as a URL, which takes a scheme, and a
\* host when the scheme is http or https
IsUrl(u) ==
  /\ u.scheme # ""
  /\ (u.scheme \in {"http", "https"} => u.host # "")

\* z.string().min(n)
StringMin(x, n) == x.t = "string" /\ Len(x.s) >= n

\* a source of an expert response: title and url, date and relevance being
\* optional
JSource(title, url, date) == [title |-> title, url |-> url, date |-> date]

SourceOk(src) ==
  /\ src.title.t = "string"
  /\ src.url.t = "string" /\ IsUrl(src.url.u)
  /\ src.date.t \in {"string", "undefined"}

ExpertResponseIssues_ConfidenceBelowTen(x) ==
  {path \in {"position", "reasoning", "confidence", "sources", "expertise_area",
             "agent_id"} :
     CASE path = "position" -> ~ StringMin(x.position, 10)
       [] path = "reasoning" -> ~ StringMin(x.reasoning, 50)
       [] path = "confidence" ->
            ~ (x.confidence.t = "number" /\ x.confidence.n >= 1 /\ x.confidence.n < 10)
       [] path = "sources" ->
            ~ (/\ x.sources.t = "array"
               /\ Len(x.sources.es) >= 1
               /\ \A i \in 1..Len(x.sources.es) : SourceOk(x.sources.es[i]))
       [] path = "expertise_area" -> x.expertise_area.t # "string"
       [] path = "agent_id" -> x.agent_id.t # "string"}

\* ExpertResponseSchema.parse: the paths of the issues it raises
ExpertResponseIssues(x) ==
  {path \in {"position", "reasoning", "confidence", "sources", "expertise_area",
             "agent_id"} :
     CASE path = "position" -> ~ StringMin(x.position, 10)
       [] path = "reasoning" -> ~ StringMin(x.reasoning, 50)
       [] path = "confidence" ->
            ~ (x.confidence.t = "number" /\ x.confidence.n >= 1 /\ x.confidence.n <= 10)
       [] path = "sources" ->
            ~ (/\ x.sources.t = "array"
               /\ Len(x.sources.es) >= 1
               /\ \A i \in 1..Len(x.sources.es) : SourceOk(x.sources.es[i]))
       [] path = "expertise_area" -> x.expertise_area.t # "string"
       [] path = "agent_id" -> x.agent_id.t # "string"}

GoodSource == JSource(JString(Str(5)), JUrl("https", "example.com"), JUndefined)

\* the records handed to ExpertResponseSchema.parse
ExpertRecords ==
  [position : {JString(Str(9)), JString(Str(10))},
   reasoning : {JString(Str(49)), JString(Str(50))},
   confidence : {JNumber(0), JNumber(1), JNumber(10), JNumber(11), JUndefined},
   sources : {JArray(<<>>),
              JArray(<<GoodSource>>),
              JArray(<<GoodSource,
                       JSource(JString(Str(5)), JUrl("", "example.com"), JUndefined)>>),
              JArray(<<JSource(JUndefined, JUrl("https", "example.com"),
                              JString(Str(4)))>>),
              JArray(<<JSource(JString(Str(5)), JUrl("mailto", ""), JNumber(2024))>>),
              JUndefined},
   expertise_area : {JString(Str(4)), JUndefined},
   agent_id : {JString(Str(7)), JUndefined}]

\* ExpertResponseSchema.parse(x): the record is accepted or a ZodError
\* with the issues is thrown
ExpertResponseSchemaParse(x) ==
  /\ parse' = [schema |-> "ExpertResponse", input |-> x,
               success |-> ExpertResponseIssues(x) = {},
               issues |-> ExpertResponseIssues(x)]
  /\ UNCHANGED <<synthesisContext, settled, dashboard, dominant, chat, search, maxRounds, trackerVars, delphiVars>>

SchemaNext == \E x \in ExpertRecords : ExpertResponseSchemaParse(x)

SpecSchema == Init /\ [][SchemaNext]_vars

\* an entry of counter_evidence as the model wrote it: title, url, summary
Evidence(title, url, summary) ==
  [kind |-> "object", title |-> title, url |-> url, summary |-> summary]

\* an element of ContrarianResponseSchema.counter_evidence: title and
\* summary are strings and url is a well-formed url; a key that is missing
\* is undefined
EvidenceOk(e) ==
  /\ "title" \in DOMAIN e
  /\ "url" \in DOMAIN e /\ IsUrl(e.url)
  /\ "summary" \in DOMAIN e

\* ContrarianResponseSchema.parse: the paths of the issues it raises
ContrarianResponseIssues(x) ==
  {path \in {"critique", "alternative_framework", "blind_spots", "counter_evidence",
             "agent_id"} :
     CASE path = "critique" -> ~ StringMin(x.critique, 50)
       [] path = "alternative_framework" -> ~ StringMin(x.alternative_framework, 30)
       [] path = "blind_spots" ->
            ~ (x.blind_spots.t = "array" /\ Len(x.blind_spots.es) >= 1)
       [] path = "counter_evidence" ->
            ~ (\/ x.counter_evidence.t = "undefined"
               \/ /\ x.counter_evidence.t = "array"
                  /\ \A i \in 1..Len(x.counter_evidence.es) :
                       EvidenceOk(x.counter_evidence.es[i]))
       [] path = "agent_id" -> x.agent_id.t # "string"}

GoodEvidence(n) == Evidence(<<<<"T", n>>>>, <<Url("https", "example.com")>>, <<Str(n)>>)

\* the final JSON of the contrarian's reply
ContrarianReplies ==
  [critique : {JString(Str(49)), JString(Str(50))},
   alternative_framework : {JString(Str(29)), JString(Str(30))},
   blind_spots : {JArray(<<>>), JArray(<<JString(Str(3))>>)},
   counter_evidence : {JUndefined,
                       JArray(<<>>),
                       JArray(<<GoodEvidence(1)>>),
                       JArray(<<GoodEvidence(1), GoodEvidence(2)>>),
                       JArray(<<Evidence(<<<<"T", 1>>>>, <<Url("", "example.com")>>,
                                         <<Str(1)>>)>>)},
   agent_id : {JUndefined, JString(Str(5))}]

\* the end of ContrarianAgent.generateResponse (lines 159-176): the parsed
\* reply has its counter_evidence list sanitized and its agent_id set, and
\* is validated; a ZodError leaves as "Contrarian agent failed"
ContrarianFinish(agentId, parsedResponse) ==
  LET sanitized ==
        IF parsedResponse.counter_evidence.t = "array"
        THEN [parsedResponse EXCEPT
                !.counter_evidence =
                   JArray(sanitizeCitations(<<parsedResponse.counter_evidence.es>>))]
        ELSE parsedResponse
      identified == [sanitized EXCEPT !.agent_id = JString(agentId)]
  IN  /\ parse' = [schema |-> "ContrarianResponse", input |-> parsedResponse,
                   agent |-> agentId,
                   success |-> ContrarianResponseIssues(identified) = {},
                   issues |-> ContrarianResponseIssues(identified),
                   output |-> identified]
      /\ UNCHANGED <<synthesisContext, settled, dashboard, dominant, chat, search, maxRounds, trackerVars, delphiVars>>

ContrarianNext ==
  \E agentId \in {Str(6), Str(7)} : \E parsedResponse \in ContrarianReplies :
    ContrarianFinish(agentId, parsedResponse)

SpecContrarian == Init /\ [][ContrarianNext]_vars

-----------------------------------------------------------------------------
(* The dashboard's run registry (src/unnamed/part_000): POST /api/run       *)
(* spawns the CLI and registers the run record, GET /api/run/stream         *)
(* attaches an SSE stream to the record's emitter.  EventEmitter.emit calls *)
(* the listeners synchronously, in the order they were attached.            *)

\* SSE streams opened on one run
MaxStreams == 2
\* chunks the process writes to stdout or stderr
MaxChunks == 2

\* an event written to an SSE stream: its name and the status it carries
\* ("" when it carries none)
SseEvent(event, status) == [event |-> event, status |-> status]

\* how the process may end: exit code 0, another code, or no code (null)
ExitCodes == {<<0>>, <<1>>, <<>>}

\* emitter.emit('data', ...): onData of every listening stream sends it
EmitData(streams) ==
  [s \in 1..Len(streams) |->
     IF streams[s].listening
     THEN [streams[s] EXCEPT !.events = Append(@, SseEvent("message", ""))]
     ELSE streams[s]]

\* emitter.emit('end'): onEnd of every listening stream sends the record's
\* status as it is during the emit, closes the stream and detaches
EmitEnd(streams, status) ==
  [s \in 1..Len(streams) |->
     IF streams[s].listening
     THEN [listening |-> FALSE,
           events |-> Append(streams[s].events, SseEvent("end", status))]
     ELSE streams[s]]

\* POST: spawn, the handlers on the process, runs.set(id, record)
DashboardPost ==
  /\ dashboard.pc = "none"
  /\ dashboard' = [pc |-> "registered", status |-> "running", proc |-> "running",
                   chunks |-> 0, streams |-> <<>>]
  /\ UNCHANGED <<synthesisContext, settled, dominant, chat, search, parse, maxRounds, trackerVars, delphiVars>>

\* GET: getRunRecord, the initial status event, the two listeners
DashboardStream ==
  /\ dashboard.pc = "registered"
  /\ Len(dashboard.streams) < MaxStreams
  /\ dashboard' = [dashboard EXCEPT !.streams =
                     Append(@, [listening |-> TRUE,
                                events |-> <<SseEvent("status", dashboard.status)>>])]
  /\ UNCHANGED <<synthesisContext, settled, dominant, chat, search, parse, maxRounds, trackerVars, delphiVars>>

\* proc.stdout / proc.stderr 'data'
DashboardData ==
  /\ dashboard.pc = "registered"
  /\ dashboard.proc = "running"
  /\ dashboard.chunks < MaxChunks
  /\ dashboard' = [dashboard EXCEPT !.chunks = @ + 1, !.streams = EmitData(@)]
  /\ UNCHANGED <<synthesisContext, settled, dominant, chat, search, parse, maxRounds, trackerVars, delphiVars>>

\* proc.on('close'): the exit line, the 'end' emit, then the status
DashboardClose(code) ==
  /\ dashboard.pc = "registered"
  /\ dashboard.proc \in {"running", "errored"}
  /\ dashboard' = [dashboard EXCEPT
                     !.proc = "closed",
                     !.streams = EmitEnd(EmitData(@), dashboard.status),
                     !.status = IF code = <<0>> THEN "completed" ELSE "error"]
  /\ UNCHANGED <<synthesisContext, settled, dominant, chat, search, parse, maxRounds, trackerVars, delphiVars>>

\* proc.on('error'): the error line, the 'end' emit, then the status; a
\* 'close' may or may not follow
DashboardError ==
  /\ dashboard.pc = "registered"
  /\ dashboard.proc = "running"
  /\ dashboard' = [dashboard EXCEPT
                     !.proc = "errored",
                     !.streams = EmitEnd(EmitData(@), dashboard.status),
                     !.status = "error"]
  /\ UNCHANGED <<synthesisContext, settled, dominant, chat, search, parse, maxRounds, trackerVars, delphiVars>>

DashboardNext ==
  \/ DashboardPost
  \/ DashboardStream
  \/ DashboardData
  \/ \E code \in ExitCodes : DashboardClose(code)
  \/ DashboardError

SpecDashboard == Init /\ [][DashboardNext]_vars

-----------------------------------------------------------------------------
(* Properties of the ConvergenceTracker (checked under SpecTracker) *)

\* the three conditions of the early-exit check, read off the metrics record
ConvergenceCriteria(m) ==
  /\ GT(m.position_stability, 8, 10)
  /\ GT(m.consensus_clarity, 75, 100)
  /\ SpreadLT(m.confidence_spread, 2, 1)

\* C3: hasConverged() is false in every state with fewer than 2 rounds added,
\* whatever the syntheses and responses of those rounds are.
C3_NoConvergenceBeforeTwoRounds ==
  Len(roundHistory) < 2 => ~ hasConverged(Tracker)

\* one round recorded whose metrics meet all three convergence criteria
C3_Witness ==
  /\ Len(roundHistory) = 1
  /\ ConvergenceCriteria(calculateMetrics(Tracker))
  /\ ~ hasConverged(Tracker)

\* C4: with at least 2 rounds recorded, hasConverged() is true exactly when
\* position_stability > 0.8, consensus_clarity > 0.75 and
\* confidence_spread < 2.0, all strict, on the current history.
C4_ConvergedIffCriteria ==
  Len(roundHistory) >= 2 =>
    LET m == calculateMetrics(Tracker)
    IN  hasConverged(Tracker) <=> ( /\ GT(m.position_stability, 8, 10)
                           /\ GT(m.consensus_clarity, 75, 100)
                           /\ SpreadLT(m.confidence_spread, 2, 1) )

\* two rounds, stability and clarity above their thresholds, and a spread of
\* exactly 2.0: not converged
C4_Witness ==
  /\ Len(roundHistory) >= 2
  /\ GT(calculateMetrics(Tracker).position_stability, 8, 10)
  /\ GT(calculateMetrics(Tracker).consensus_clarity, 75, 100)
  /\ calculateMetrics(Tracker).confidence_spread.n = 4 * calculateMetrics(Tracker).confidence_spread.d
  /\ ~ hasConverged(Tracker)

\* C5: hasStableDivergence() is false with fewer than 2 rounds; with at least
\* 2 it is true exactly when position_stability > 0.9 and
\* consensus_clarity < 0.4, both strict.
C5_StableDivergenceIffCriteria ==
  /\ Len(roundHistory) < 2 => ~ hasStableDivergence(Tracker)
  /\ Len(roundHistory) >= 2 =>
       LET m == calculateMetrics(Tracker)
       IN  hasStableDivergence(Tracker) <=> ( /\ GT(m.position_stability, 9, 10)
                                     /\ LT(m.consensus_clarity, 4, 10) )

\* two rounds, full stability and a clarity in [0.4, 0.5): no stable divergence
C5_Witness ==
  /\ Len(roundHistory) >= 2
  /\ GT(calculateMetrics(Tracker).position_stability, 9, 10)
  /\ LT(calculateMetrics(Tracker).consensus_clarity, 5, 10)
  /\ ~ LT(calculateMetrics(Tracker).consensus_clarity, 4, 10)
  /\ ~ hasStableDivergence(Tracker)

\* the label the three metrics of m determine
LabelOf(m) ==
  IF /\ GT(m.consensus_clarity, 8, 10)
     /\ GT(m.position_stability, 8, 10)
     /\ SpreadLT(m.confidence_spread, 15, 10)
  THEN "consensus_reached"
  ELSE IF GT(m.position_stability, 9, 10) /\ LT(m.consensus_clarity, 5, 10)
  THEN "divergence_stable"
  ELSE "max_rounds"

\* C6: the termination_reason of calculateMetrics(Tracker) is determined by the current
\* metrics: consensus_reached if clarity > 0.8, stability > 0.8 and
\* spread < 1.5; else divergence_stable if stability > 0.9 and clarity < 0.5;
\* else max_rounds.
C6_TerminationReasonFromMetrics ==
  Len(roundHistory) >= 1 =>
    LET m == calculateMetrics(Tracker)
    IN  m.termination_reason = LabelOf(m)

\* the metrics meet the early-exit criteria but not the label's: max_rounds
C6_Witness ==
  /\ Len(roundHistory) >= 2
  /\ ConvergenceCriteria(calculateMetrics(Tracker))
  /\ calculateMetrics(Tracker).termination_reason = "max_rounds"

\* every position the tracker holds satisfies the schema's minimum length
AllPositionsSchemaValid ==
  \A id \in DOMAIN expertHistories :
    \A i \in 1..Len(expertHistories[id]) :
      SchemaValidPosition(expertHistories[id][i].position)

\* the lowercased tokens of a position, of any length
AllWords(position) == {toLowerCase(Chars(position[i])) : i \in 1..Len(position)}

LastTwoIdentical(id) ==
  LET history == expertHistories[id]
  IN  history[Len(history)].position = history[Len(history) - 1].position

LastTwoDisjoint(id) ==
  LET history == expertHistories[id]
  IN  AllWords(history[Len(history)].position)
        \cap AllWords(history[Len(history) - 1].position) = {}

\* C8: with at least 2 rounds and schema-valid positions, position_stability
\* is 1.0 if every expert's last two positions are identical, and 0.0 if
\* every expert's last two positions share no word.
C8_IdenticalOneDisjointZero ==
  (Len(roundHistory) >= 2 /\ AllPositionsSchemaValid /\ EligibleExperts(Tracker) # {}) =>
    /\ (\A id \in EligibleExperts(Tracker) : LastTwoIdentical(id))
         => IsOne(calculatePositionStability(Tracker))
    /\ (\A id \in EligibleExperts(Tracker) : LastTwoDisjoint(id))
         => IsZero(calculatePositionStability(Tracker))

\* C9: position_stability is exactly 1.0 whenever fewer than 2 rounds are
\* recorded or no expert has 2 or more responses, and it is a number in [0,1]
\* in every tracker state.
C9_StabilityVacuousOneAndBounded ==
  /\ InUnitInterval(calculatePositionStability(Tracker))
  /\ (Len(roundHistory) < 2 \/ EligibleExperts(Tracker) = {})
       => IsOne(calculatePositionStability(Tracker))

\* two rounds recorded, experts known, none of them with two responses
C9_Witness ==
  /\ Len(roundHistory) >= 2
  /\ DOMAIN expertHistories # {}
  /\ EligibleExperts(Tracker) = {}
  /\ IsOne(calculatePositionStability(Tracker))

\* C10, as stated: with at least one round recorded, citation_overlap is 1.0
\* whenever fewer than 2 experts have any recorded response.
C10_Original ==
  (Len(roundHistory) >= 1 /\ Cardinality(DOMAIN expertHistories) < 2) =>
    IsOne(calculateMetrics(Tracker).citation_overlap)

\* C10, amended: with at least one round recorded, citation_overlap is 1.0
\* when exactly one expert has any recorded response and 0 when none has.
C10_OverlapOneExpertOrNone ==
  Len(roundHistory) >= 1 =>
    /\ Cardinality(DOMAIN expertHistories) = 1
         => IsOne(calculateMetrics(Tracker).citation_overlap)
    /\ Cardinality(DOMAIN expertHistories) = 0
         => IsZero(calculateMetrics(Tracker).citation_overlap)

\* rounds recorded and a single expert with responses
C10_Witness ==
  /\ Len(roundHistory) >= 1
  /\ Cardinality(DOMAIN expertHistories) = 1
  /\ IsOne(calculateMetrics(Tracker).citation_overlap)

-----------------------------------------------------------------------------
(* Properties of the round loop (checked under Spec and SpecReturns) *)

InRun == pc \in {"experts", "contrarians", "pause", "report"}

\* the state in which the latest round of the run has just been ingested and
\* the early-termination check made
AfterIngest ==
  \/ pc = "pause"
  \/ pc = "report" /\ exit \in {"converged", "diverged"}

Consecutive(s) == \A i \in 1..Len(s) : s[i] = i

\* C1: after round n is ingested, if n >= 2 and hasConverged() or
\* hasStableDivergence() holds, no round n+1 is executed and the run goes to
\* report generation; after round 1 no check is made, and round 2 is executed
\* whenever maxRounds >= 2.
C1_EarlyExitFromRoundTwo ==
  /\ [](AfterIngest =>
          /\ (round >= 2 /\ (hasConverged(Tracker) \/ hasStableDivergence(Tracker)))
               => (pc = "report" /\ Len(executed) = round)
          /\ round = 1 => pc = "pause")
  /\ [][(pc = "report" /\ exit \in {"converged", "diverged"})
          => (executed' = executed \/ runs' # runs)]_vars
  /\ [][(pc = "pause" /\ round = 1 /\ maxRounds >= 2)
          => (pc' = "experts" /\ round' = 2 /\ executed' = <<1, 2>>)]_vars

\* a run left its loop after round 2, short of the cap, because the tracker
\* reported convergence
C1_Witness ==
  /\ pc = "report"
  /\ exit = "converged"
  /\ round = 2
  /\ round < maxRounds
  /\ executed = <<1, 2>>
  /\ hasConverged(Tracker)

\* what is left of the run: the rounds to come, then the calls to settle
Rank ==
  LET W == 3 + Len(experts) + Len(contrarians)
      pending(results) ==
        Cardinality({i \in 1..Len(results) : results[i].status = "pending"})
  IN  CASE pc = "experts" ->
             (maxRounds - round) * W + 3 + Len(contrarians) + pending(expertResults)
        [] pc = "contrarians" ->
             (maxRounds - round) * W + 2 + pending(contrarianResults)
        [] pc = "pause" -> (maxRounds - round) * W + 1
        [] pc = "report" -> 0
        [] OTHER -> 0 - 1

\* C2: when every external call returns, runDelphiProcess terminates: it
\* executes rounds 1..k consecutively with 1 <= k <= maxRounds, maxRounds is
\* within [1,5] after any setMaxRounds calls, no round above maxRounds is
\* executed, and the run then reaches report generation.  Termination is by
\* Rank: it is non-negative in a run, every step of a run lowers it, and a
\* run in progress always has a step to take.
C2_BoundedRoundsThenReport ==
  /\ [](maxRounds \in MinRounds..MaxRoundsCap)
  /\ [](InRun => /\ Consecutive(executed)
                 /\ 1 <= Len(executed)
                 /\ Len(executed) <= maxRounds
                 /\ Rank >= 0
                 /\ StepAvailable)
  /\ [](pc # "failed")
  /\ [][InRun => Rank' < Rank]_vars
  /\ [][(InRun /\ ~ InRun') => (pc = "report" /\ pc' = "done"
                                 /\ report'.status = "generated")]_vars

\* a run of three rounds reached the cap and produced its report
C2_Witness ==
  /\ pc = "done"
  /\ exit = "max_rounds_reached"
  /\ executed = <<1, 2, 3>>
  /\ maxRounds = 3
  /\ report.status = "generated"

\* C7, as stated: whenever the metrics after a completed round n with
\* 2 <= n < maxRounds carry termination_reason max_rounds, the loop continues
\* with round n+1.
C7_Original ==
  (AfterIngest /\ round >= 2 /\ round < maxRounds
     /\ calculateMetrics(Tracker).termination_reason = "max_rounds")
    => pc = "pause"

\* C7, amended: whenever the metrics after a completed round n with
\* 2 <= n < maxRounds carry termination_reason max_rounds and hasConverged()
\* is false, the loop continues and round n+1 is executed; a report labelled
\* max_rounds comes from a run that executed all maxRounds rounds or left the
\* loop because hasConverged() held.
C7_MaxRoundsLabelContinuesUnlessConverged ==
  /\ []((AfterIngest /\ round >= 2 /\ round < maxRounds
           /\ calculateMetrics(Tracker).termination_reason = "max_rounds"
           /\ ~ hasConverged(Tracker))
          => pc = "pause")
  /\ [][(pc = "pause" /\ round < maxRounds)
          => (pc' = "experts" /\ round' = round + 1
              /\ executed' = Append(executed, round + 1))]_vars
  /\ []((pc = "report" /\ calculateMetrics(Tracker).termination_reason = "max_rounds")
          => \/ exit = "max_rounds_reached" /\ Len(executed) = maxRounds
             \/ exit = "converged")
  /\ [][(pc = "report" /\ pc' = "done")
          => report'.convergence_analysis = calculateMetrics(Tracker)]_vars

\* round 2 of a longer run is ingested, the label is max_rounds, and the loop
\* goes on
C7_Witness ==
  /\ pc = "pause"
  /\ round = 2
  /\ round < maxRounds
  /\ EligibleExperts(Tracker) # {}
  /\ IsOne(calculatePositionStability(Tracker))
  /\ calculateMetrics(Tracker).termination_reason = "max_rounds"

-----------------------------------------------------------------------------
(* Properties of the synthesis pipeline (checked under SpecSynthesis)      *)

LatestRound == roundHistory[Len(roundHistory)]

\* the latest round has one cluster, of as many expert ids as experts took
\* part, all of them experts the tracker has responses of, and no
\* divergence area
FullConsensusRound ==
  /\ Len(roundHistory) >= 1
  /\ Len(LatestRound.clusters) = 1
  /\ LatestRound.participation_count >= 1
  /\ Len(LatestRound.clusters[1].expert_ids) = LatestRound.participation_count
  /\ Range(LatestRound.clusters[1].expert_ids) \subseteq DOMAIN expertHistories
  /\ LatestRound.divergence_areas = <<>>

\* clarity = 0.4 + 0.3 + 0.3 * (average_confidence / 10)
ClarityIsFullConsensusValue ==
  LET clarity == calculateConsensusClarity(Tracker)
      avg == LatestRound.average_confidence
  IN  /\ clarity.d > 0
      /\ avg.d > 0
      /\ clarity.n * 100 * avg.d = clarity.d * (70 * avg.d + 3 * avg.n)
      /\ (avg.n = 8 * avg.d) => (clarity.n * 100 = 94 * clarity.d)

\* C11: for every RoundSynthesis that synthesizeRound produces from at least
\* one response and the tracker ingests, consensus_clarity lies in [0,1].
C11_ClarityInUnitInterval ==
  (Len(roundHistory) >= 1 /\ LatestRound.participation_count >= 1)
    => InUnitInterval(calculateConsensusClarity(Tracker))

\* C12, as stated: with one cluster of every participating expert and no
\* divergence area, consensus_clarity is 0.4 + 0.3 + 0.3 * (avg / 10), which
\* is 0.94 for an average confidence of 8.
C12_Original ==
  FullConsensusRound => ClarityIsFullConsensusValue

\* C12, amended: with one cluster of every participating expert, at least
\* one consensus area and no divergence area, consensus_clarity is
\* 0.4 + 0.3 + 0.3 * (avg / 10), which is 0.94 for an average confidence of 8.
C12_ClarityOfFullConsensus ==
  (FullConsensusRound /\ LatestRound.consensus_areas # <<>>)
    => ClarityIsFullConsensusValue

\* two experts of average confidence 8 in one cluster, one consensus area:
\* clarity 0.94
C12_Witness ==
  /\ FullConsensusRound
  /\ LatestRound.consensus_areas # <<>>
  /\ LatestRound.participation_count = 2
  /\ LatestRound.average_confidence = Ratio(16, 2)
  /\ calculateConsensusClarity(Tracker).n * 100 = 94 * calculateConsensusClarity(Tracker).d

-----------------------------------------------------------------------------
(* Properties of runs with failing calls (checked under SpecFaults)        *)

\* the experts whose call of the round in progress has failed / succeeded
FailedNow == {i \in 1..Len(expertResults) : expertResults[i].status = "null"}
RespondedNow == {i \in 1..Len(expertResults) : expertResults[i].status = "ok"}

\* the syntheses the tracker holds of the current run's rounds
RunSyntheses ==
  SubSeq(roundHistory, Len(roundHistory) - Len(roundResults) + 1, Len(roundHistory))

\* C13: for any set F of experts whose call fails in a round, the round
\* completes: its expertResponses are the responses of the experts outside
\* F, in list order, one failed-expert entry is recorded per expert in F,
\* the synthesis runs on the remaining responses, and the final report's
\* failed_experts holds the entries of all rounds.
C13_ExpertFailuresIsolated ==
  /\ [](pc = "contrarians" =>
          /\ synthesis.participation_count = Cardinality(RespondedNow)
          /\ Len(failedExperts) = Cardinality(FailedNow)
          /\ {failedExperts[k].role : k \in 1..Len(failedExperts)} = FailedNow)
  /\ [][(pc = "contrarians" /\ pc' # "contrarians") =>
          LET result == roundResults'[Len(roundResults')]
          IN  /\ Len(roundResults') = Len(roundResults) + 1
              /\ Len(result.expertResponses) = Cardinality(RespondedNow)
              /\ \A i \in RespondedNow :
                   \E k \in 1..Len(result.expertResponses) :
                     /\ result.expertResponses[k] = expertResults[i].response
                     /\ k = Cardinality({m \in RespondedNow : m <= i})
              /\ Len(result.failedExperts) = Cardinality(FailedNow)
              /\ {result.failedExperts[k].role : k \in 1..Len(result.failedExperts)}
                   = FailedNow
              /\ roundHistory'[Len(roundHistory')].participation_count
                   = Cardinality(RespondedNow)]_vars
  /\ [][(pc = "report" /\ pc' = "done") =>
          /\ Len(report'.failed_experts)
               = SumSeq([k \in 1..Len(RunSyntheses) |->
                           Len(experts) - RunSyntheses[k].participation_count])
          /\ \A k \in 1..Len(roundResults) :
               \A m \in 1..Len(roundResults[k].failedExperts) :
                 roundResults[k].failedExperts[m] \in Range(report'.failed_experts)]_vars

\* a report of two rounds in each of which one of the two experts failed
C13_Witness ==
  /\ pc = "done"
  /\ report.status = "generated"
  /\ Len(experts) = 2
  /\ Len(report.round_history) = 2
  /\ report.round_history[1].participation_count = 1
  /\ report.round_history[2].participation_count = 1
  /\ Len(report.failed_experts) = 2
  /\ Len(report.expert_positions) = 1

\* the contrarians whose call of the round in progress has failed
ContrarianFailedNow ==
  {j \in 1..Len(contrarianResults) : contrarianResults[j].status = "null"}

\* C14 as stated: a contrarian failure is not isolated; after it the run
\* is aborted and no report is produced.
C14_Original ==
  [][(pc = "contrarians" /\ ContrarianFailedNow # {})
       => pc' \in {"contrarians", "failed"}]_vars

\* C14: a contrarian failure is isolated: the round does not fail, its
\* contrarianResponses are the responses of the contrarians that did not
\* fail, in list order, and the run goes on to its pause or its report.
C14_ContrarianFailureIsolated ==
  /\ [][pc = "contrarians" => pc' # "failed"]_vars
  /\ [][(pc = "contrarians" /\ pc' # "contrarians") =>
          LET result == roundResults'[Len(roundResults')]
              answered == {j \in 1..Len(contrarianResults) :
                             contrarianResults[j].status = "ok"}
          IN  /\ pc' \in {"pause", "report"}
              /\ Len(result.contrarianResponses) = Cardinality(answered)
              /\ \A j \in answered :
                   result.contrarianResponses[Cardinality({m \in answered : m <= j})]
                     = contrarianResults[j].response]_vars

\* a report of a run in whose rounds contrarians were called and every
\* one of them failed
C14_Witness ==
  /\ pc = "done"
  /\ report.status = "generated"
  /\ Len(contrarians) > 0
  /\ \A k \in 1..Len(report.round_history) : report.round_history[k].clusters # <<>>
  /\ report.contrarian_observations = <<>>

\* C15: whenever a run has failed, whatever the failing step, none of the
\* run's report files (markdown, JSON) exists.
C15_NoArtifactsAfterFailure ==
  pc = "failed" => artifacts \cap {"md", "json"} = {}

\* C16: a round in which every expert failed is synthesized without a
\* fault and the average_confidence the tracker receives for it is the
\* number 0.
C16_EmptyRoundAverageDefined ==
  \A k \in 1..Len(roundHistory) :
    roundHistory[k].participation_count = 0 =>
      /\ ~ IsNaN(roundHistory[k].average_confidence)
      /\ roundHistory[k].average_confidence.n = 0

\* C17: the final report of a run of k rounds holds the expert responses
\* of round k as expert_positions, the contrarian responses of rounds 1..k
\* concatenated in round order as contrarian_observations, and the k
\* syntheses in round order as round_history.
C17_ReportHoldsTheRounds ==
  [][(pc = "report" /\ pc' = "done") =>
       LET k == Len(executed)
           observed(i) == Len(roundResults[i].contrarianResponses)
           before(i) == SumSeq([m \in 1..(i - 1) |-> observed(m)])
       IN  /\ k >= 1
           /\ Len(roundResults) = k
           /\ report'.expert_positions = roundResults[k].expertResponses
           /\ Len(report'.contrarian_observations) = before(k + 1)
           /\ \A i \in 1..k : \A m \in 1..observed(i) :
                report'.contrarian_observations[before(i) + m]
                  = roundResults[i].contrarianResponses[m]
           /\ Len(report'.round_history) = k
           /\ report'.round_history = RunSyntheses
           /\ \A i \in 1..k :
                /\ report'.round_history[i] = roundResults[i].synthesis
                /\ report'.round_history[i].round_number = executed[i]]_vars

\* a report of two rounds or more: both experts answered in the first
\* round, one in the last, and a contrarian answered in two rounds
C17_Witness ==
  /\ pc = "done"
  /\ report.status = "generated"
  /\ Len(report.round_history) >= 2
  /\ report.round_history[1].participation_count = 2
  /\ Len(report.expert_positions) = 1
  /\ Len(report.contrarian_observations) >= 2
  /\ report.contrarian_observations[1].critique = 1
  /\ report.contrarian_observations[2].critique = 2

\* the experts of the report's expert_positions that the largest cluster
\* of the final round does not name
FinalRoundDissenters ==
  LET final == report.round_history[Len(report.round_history)]
  IN  {k \in 1..Len(report.expert_positions) :
         report.expert_positions[k].agent_id
           \notin Range(LargestCluster(final).expert_ids)}

\* C18: dissenting_views has one entry per final-round response whose
\* agent_id the largest final-round cluster does not name, and nothing
\* else: no entry of an earlier round and no expert twice.
C18_DissentersOfFinalRoundOnly ==
  (pc = "done" /\ report.status = "generated") =>
    /\ Len(report.dissenting_views) = Cardinality(FinalRoundDissenters)
    /\ \A k \in FinalRoundDissenters :
         \E v \in 1..Len(report.dissenting_views) :
           report.dissenting_views[v].expert_ids
             = <<report.expert_positions[k].agent_id>>
    /\ \A v, w \in 1..Len(report.dissenting_views) :
         report.dissenting_views[v].expert_ids = report.dissenting_views[w].expert_ids
           => v = w

\* C19: when the final round's synthesis has no clusters, dissenting_views
\* is empty whatever the number of responses.
C19_NoClustersNoDissent ==
  (/\ pc = "done"
   /\ report.status = "generated"
   /\ report.round_history[Len(report.round_history)].clusters = <<>>)
    => report.dissenting_views = <<>>

-----------------------------------------------------------------------------
(* Properties of safeChatCompletion (checked under SpecChat)               *)

\* C20: a call of safeChatCompletion that returns, returns a response
\* whose first choice has content that is neither empty nor whitespace,
\* whatever the service answered, its answer to the fallback included.
C20_ReturnsUsableText ==
  chat.pc = "returned" => ~ NoUsableText(chat.res[1])

\* the step settles a create with a completion that has no usable text
SettledUnusable ==
  /\ chat.pc = "create"
  /\ Len(chat'.last) = 1
  /\ chat'.last[1].status = "ok"
  /\ NoUsableText(chat'.last[1].response)

\* the step issues the one fallback request: r with model gpt-4o and
\* nothing else changed, in the same attempt
IssuesFallback ==
  /\ chat'.pc = "fallback"
  /\ chat'.r = [chat.r EXCEPT !.model = <<"gpt-4o">>]
  /\ chat'.attempt = chat.attempt
  /\ chat'.requests = chat.requests + 1

\* the step returns the reply as it is, without a further request
ReturnsReply ==
  /\ chat'.pc = "returned"
  /\ chat'.res = <<chat'.last[1].response>>
  /\ chat'.requests = chat.requests

SettledError(err) ==
  /\ chat.pc \in {"create", "fallback"}
  /\ chat'.last = <<Threw(err)>>

\* err is none of: temperature unsupported, token-limit parameter name
\* unsupported, model invalid or unknown, Responses API required
UnhandledError(err) ==
  /\ err.code \notin {"unsupported_value", "unsupported_parameter", "model_not_found"}
  /\ err.param \notin {"temperature", "max_tokens", "max_completion_tokens", "model"}
  /\ err.message \cap {"unsupported", "does not support", "unsupported parameter",
                        "not found", "does not exist", "unknown", "responses api",
                        "use the responses", "responses endpoint"} = {}

ChatRunning == chat.pc \in {"create", "fallback"}

\* the error the call throws when its attempts are used up
Exhausted == ApiError("none", "none", {"failed after multiple transformation attempts"})

\* err is a rejection the catch block answers with a transformed request
TransformableError(r, err) ==
  \/ err.param = "temperature" /\ r.temperature
  \/ err.param = "max_tokens" /\ r.max_tokens
  \/ err.param = "max_completion_tokens" /\ r.max_completion_tokens
  \/ err.param = "model"
  \/ "responses api" \in err.message

\* what is left of a call: two requests at most per attempt still to begin
ChatRank ==
  IF ChatRunning
  THEN 2 * (MaxAttempts - chat.attempt) - (IF chat.pc = "fallback" THEN 1 ELSE 0)
  ELSE 0

\* C23: safeChatCompletion terminates whatever the service does: a call
\* makes at most 5 loop attempts and at most 10 requests, every reply of
\* the service brings it nearer to its end, and a transformable rejection
\* in the fifth attempt ends it with the exhaustion error.
C23_BoundedAttempts ==
  /\ [](ChatRunning => (chat.attempt \in 0..4 /\ ChatRank > 0))
  /\ [](chat.pc # "idle" => chat.requests <= 10)
  /\ [][ChatRunning => ChatRank' < ChatRank]_vars
  /\ [][\A err \in ChatErrors :
          (SettledError(err) /\ TransformableError(chat.r, err) /\ chat.attempt = 4) =>
            /\ chat'.pc = "thrown"
            /\ chat'.err = <<Exhausted>>
            /\ chat'.requests = chat.requests]_vars

\* the model was rejected in every attempt although it was the fallback
\* from the second request on: the call has thrown the exhaustion error
C23_Witness ==
  /\ chat.pc = "thrown"
  /\ chat.err = <<Exhausted>>
  /\ chat.last = <<Threw(ApiError("model_not_found", "model", {}))>>
  /\ chat.r.model = <<"gpt-4o">>
  /\ chat.requests = 6

-----------------------------------------------------------------------------
(* Properties of PerplexityTool.search (checked under SpecSearch)          *)

\* the rejection the step settles, as the HTTP client raised it
SearchRejected(error) ==
  /\ search.pc = "request"
  /\ search'.last = <<Threw(error)>>

\* the request timed out / the service answered with a 5xx status
IsTimeout(error) == error.response = <<>> /\ "timeout" \in error.message
Is5xx(error) ==
  Len(error.response) = 1 /\ error.response[1].status \in 500..599

\* C24: a search sends at most 3 requests, and a request failure that is
\* neither a timeout nor a 5xx response ends the call with a thrown error
\* at once: no delay and no further request.
C24_ThreeRequestsAndFatalErrors ==
  /\ [](search.pc # "idle" => search.requests <= 3)
  /\ [][\A error \in HttpErrors :
          (SearchRejected(error) /\ ~ IsTimeout(error) /\ ~ Is5xx(error)) =>
            /\ search'.pc = "thrown"
            /\ search'.requests = search.requests
            /\ search'.delays = search.delays]_vars

\* C25: a request that fails with a 5xx response while fewer than 3
\* requests have been made is retried after the backoff delay: 1s before
\* the second request, 2s before the third.
C25_RetryOn5xx ==
  [][\A error \in HttpErrors :
       (SearchRejected(error) /\ Is5xx(error) /\ search.requests < 3) =>
         /\ search'.pc = "backoff"
         /\ search'.delays = Append(search.delays, 1000 * 2 ^ (search.requests - 1))]_vars

\* C26: a reply with a non-empty citation list gives a result with at
\* least as many searchResults as citations.
C26_ResultsCoverCitations ==
  (search.pc = "returned" /\ Len(search.result[1].citations) > 0) =>
    Len(search.result[1].searchResults) >= Len(search.result[1].citations)

-----------------------------------------------------------------------------
(* Properties of the schemas (checked under SpecSchema and SpecContrarian) *)

ExpertParsed == parse.schema = "ExpertResponse"

\* the conditions on position, reasoning, confidence, expertise_area and
\* agent_id
ExpertScalarsOk(x) ==
  /\ x.position.t = "string" /\ Len(x.position.s) > 9
  /\ x.reasoning.t = "string" /\ Len(x.reasoning.s) > 49
  /\ x.confidence.t = "number" /\ x.confidence.n \in 1..10
  /\ x.expertise_area.t = "string"
  /\ x.agent_id.t = "string"

\* sources is a non-empty list with well-formed urls
ExpertUrlsOk(x) ==
  /\ x.sources.t = "array"
  /\ x.sources.es # <<>>
  /\ \A i \in 1..Len(x.sources.es) :
       x.sources.es[i].url.t = "string" /\ IsUrl(x.sources.es[i].url.u)

\* C28 as stated: a record is accepted exactly when position has at least
\* 10 characters, reasoning at least 50, confidence lies in [1,10], sources
\* is non-empty with well-formed urls, and expertise_area and agent_id are
\* strings.
C28_Original ==
  ExpertParsed =>
    (parse.success <=> (ExpertScalarsOk(parse.input) /\ ExpertUrlsOk(parse.input)))

\* C28: a record is accepted exactly when, besides the stated conditions,
\* every source has a string title and a date that is a string or absent;
\* a record that fails one of the stated conditions is rejected with an
\* issue at the failing field.
C28_SchemaAcceptsExactly ==
  ExpertParsed =>
    LET x == parse.input
    IN  /\ parse.success <=>
             /\ ExpertScalarsOk(x)
             /\ ExpertUrlsOk(x)
             /\ \A i \in 1..Len(x.sources.es) :
                  /\ x.sources.es[i].title.t = "string"
                  /\ x.sources.es[i].date.t \in {"string", "undefined"}
        /\ (x.position.t = "string" /\ Len(x.position.s) = 9) => "position" \in parse.issues
        /\ (x.reasoning.t = "string" /\ Len(x.reasoning.s) = 49)
             => "reasoning" \in parse.issues
        /\ (x.confidence.t = "number" /\ x.confidence.n \in {0, 11})
             => "confidence" \in parse.issues
        /\ (x.position.t = "string" /\ Len(x.position.s) = 10)
             => "position" \notin parse.issues
        /\ (x.reasoning.t = "string" /\ Len(x.reasoning.s) = 50)
             => "reasoning" \notin parse.issues
        /\ (x.confidence.t = "number" /\ x.confidence.n \in {1, 10})
             => "confidence" \notin parse.issues

\* a record at the boundaries was accepted: position of 10 characters,
\* reasoning of 50, confidence 10
C28_Witness ==
  /\ ExpertParsed
  /\ parse.success
  /\ Len(parse.input.position.s) = 10
  /\ Len(parse.input.reasoning.s) = 50
  /\ parse.input.confidence.n = 10

\* the reply satisfies the schema as the model wrote it and carries a
\* non-empty counter_evidence list of entries with title, well-formed url
\* and summary
ValidReplyWithEvidence(x) ==
  /\ Len(x.critique.s) >= 50
  /\ Len(x.alternative_framework.s) >= 30
  /\ Len(x.blind_spots.es) >= 1
  /\ x.counter_evidence.t = "array"
  /\ Len(x.counter_evidence.es) >= 1
  /\ \A i \in 1..Len(x.counter_evidence.es) :
       /\ Len(x.counter_evidence.es[i].title) = 1
       /\ Len(x.counter_evidence.es[i].url) = 1
       /\ IsUrl(x.counter_evidence.es[i].url[1])
       /\ Len(x.counter_evidence.es[i].summary) = 1

\* C27: a reply that satisfies the schema and carries well-formed
\* counter_evidence is returned validated, with agent_id the agent's own
\* id and with those counter_evidence entries.
C27_EvidenceSurvivesValidation ==
  (parse.schema = "ContrarianResponse" /\ ValidReplyWithEvidence(parse.input)) =>
    /\ parse.success
    /\ parse.output.agent_id.s = parse.agent
    /\ Len(parse.output.counter_evidence.es) = Len(parse.input.counter_evidence.es)

-----------------------------------------------------------------------------
(* Properties of runs on one DelphiAgent (checked under Spec and            *)
(* SpecInterrupt)                                                           *)

\* C29: every run computes its metrics from its own rounds only: in every
\* report rounds_completed is the number of rounds executed in that run,
\* the length of its round_history.
C29_MetricsOfOwnRounds ==
  (pc = "done" /\ report.status = "generated") =>
    /\ report.convergence_analysis.rounds_completed = Len(report.round_history)
    /\ report.convergence_analysis.rounds_completed = Len(executed)

\* C30: a run interrupted before it has completed leaves no report
\* artifact: files are written only in the step that follows the round
\* loop and assembles the report, and a markdown report without its JSON
\* counterpart is never the outcome of an interruption.
C30_InterruptLeavesNoReport ==
  /\ [](pc = "interrupted" => artifacts = {})
  /\ [][artifacts' \notin {artifacts, {}} => (pc = "report" /\ exit # "none")]_vars
  /\ []((("md" \in artifacts) /\ ("json" \notin artifacts)) => pc = "failed")

\* a run was interrupted after its last round, while the report was being
\* assembled
C30_Witness ==
  /\ pc = "interrupted"
  /\ Len(roundResults) = maxRounds
  /\ exit = "max_rounds_reached"
  /\ artifacts = {}

-----------------------------------------------------------------------------
(* Properties of the tracker's history (checked under SpecTracker) *)

\* C31: getRoundHistory is empty before the first addRound; every addRound
\* call leaves the entries already recorded in place and adds the synthesis
\* it was passed at the end, rounds_completed is the number of calls made,
\* and each response of the call is added to the history of its own
\* agent_id, the other histories staying as they were.
C31_HistoryIsTheCallsInOrder ==
  /\ (getRoundHistory(Tracker) = <<>> /\ DOMAIN expertHistories = {})
  /\ [][ /\ calculateMetrics(Tracker').rounds_completed = Len(roundHistory) + 1
         /\ \A i \in 1..Len(roundHistory') :
              getRoundHistory(Tracker')[i].round_number = i
         /\ \E input \in TrackerInputs(Len(roundHistory) + 1) :
              LET own(id) == SelectSeq(input[2], LAMBDA r : r.agent_id = id)
                  before(id) == IF id \in DOMAIN expertHistories
                                THEN expertHistories[id] ELSE <<>>
              IN  /\ SubSeq(getRoundHistory(Tracker'), 1, Len(roundHistory))
                       = getRoundHistory(Tracker)
                  /\ getRoundHistory(Tracker')[Len(roundHistory) + 1] = input[1]
                  /\ DOMAIN expertHistories' =
                       DOMAIN expertHistories
                       \cup {input[2][k].agent_id : k \in 1..Len(input[2])}
                  /\ \A id \in DOMAIN expertHistories' :
                       expertHistories'[id] = before(id) \o own(id)
       ]_vars

\* two calls made; the second was passed the response of one expert only,
\* so that expert's history has two entries and the other's has one
C31_Witness ==
  /\ Len(getRoundHistory(Tracker)) = 2
  /\ DOMAIN expertHistories = {E1, E2}
  /\ Len(expertHistories[E1]) = 2
  /\ Len(expertHistories[E2]) = 1
  /\ expertHistories[E1][1].position # expertHistories[E1][2].position

-----------------------------------------------------------------------------
(* Properties of the processed clusters (checked under SpecSynthesis) *)

\* the agent_ids of a list of responses
AgentIds(expertResponses) ==
  {expertResponses[i].agent_id : i \in 1..Len(expertResponses)}

\* the round just recorded is the round of these responses and this reply
RecordedFrom(input) ==
  /\ Len(roundHistory') = Len(roundHistory) + 1
  /\ expertHistories' = TrackResponses(expertHistories, input[1])
  /\ LET syn == synthesizeRound(Len(roundHistory) + 1, input[1], input[2])
     IN  roundHistory'[Len(roundHistory')].round_number = syn.round_number
         /\ Len(roundHistory'[Len(roundHistory')].clusters) = Len(syn.clusters)
         /\ Range(roundHistory'[Len(roundHistory')].clusters) = Range(syn.clusters)

\* C32: a raw cluster of the reply that names an expert id which is not the
\* agent_id of a response of the round has no counterpart among the
\* processed clusters of the round's synthesis: no processed cluster
\* carries its theme.
C32_ClusterWithUnknownIdDropped ==
  [][\A input \in SynthesisInputs :
       RecordedFrom(input) =>
         \A k \in 1..Len(input[2].clusters) :
           LET rawCluster == input[2].clusters[k]
               recorded == roundHistory'[Len(roundHistory')].clusters
           IN  (rawCluster.theme # ""
                /\ ~ (Range(rawCluster.expert_ids) \subseteq AgentIds(input[1])))
               => \A c \in 1..Len(recorded) : recorded[c].theme # rawCluster.theme
    ]_vars

\* C33: in every synthesis that is recorded, each cluster's expert_ids are
\* agent_ids of the responses of that round, the responses the same step
\* adds to the experts' histories.
C33_ClusterIdsAreRoundExperts ==
  [][Len(roundHistory') = Len(roundHistory) + 1 =>
       LET recorded == roundHistory'[Len(roundHistory')].clusters
           grown(id) == id \notin DOMAIN expertHistories
                        \/ Len(expertHistories'[id]) > Len(expertHistories[id])
           roundExperts == {id \in DOMAIN expertHistories' : grown(id)}
       IN  \A c \in 1..Len(recorded) :
             Range(recorded[c].expert_ids) \subseteq roundExperts
    ]_vars

-----------------------------------------------------------------------------
(* Properties of identifyDominantClusters (checked under SpecDominant) *)

\* the cluster of the synthesis given that carries this theme
ClusterOf(theme) ==
  CHOOSE c \in Range(dominant.given.clusters) : c.theme = theme

\* twice the midpoint of a cluster's confidence_range
TwiceMidpoint(c) == c.confidence_range[1] + c.confidence_range[2]

\* cluster a is not to come after cluster b: more experts, or as many and a
\* midpoint at least as high
Dominates(a, b) ==
  \/ Len(a.expert_ids) > Len(b.expert_ids)
  \/ /\ Len(a.expert_ids) = Len(b.expert_ids)
     /\ TwiceMidpoint(a) >= TwiceMidpoint(b)

\* C34: identifyDominantClusters returns the themes of at most 3 clusters of
\* the synthesis, each once: all of them when there are 3 or fewer, none
\* when there is none; they are ordered by expert count descending and,
\* among equal counts, by the midpoint of confidence_range descending, and
\* no cluster left out comes before one returned.  For sizes [5,5,2] with
\* confidences [7,9,10] the order is the size-5 cluster of confidence 9,
\* the size-5 cluster of confidence 7, the size-2 cluster.
C34_DominantClustersOrdered ==
  dominant.pc = "returned" =>
    LET given == dominant.given.clusters
        themes == dominant.themes
        all == {given[i].theme : i \in 1..Len(given)}
    IN  /\ Len(themes) = Min(3, Len(given))
        /\ Range(themes) \subseteq all
        /\ \A i, j \in 1..Len(themes) : i # j => themes[i] # themes[j]
        /\ \A i, j \in 1..Len(themes) :
             i < j => Dominates(ClusterOf(themes[i]), ClusterOf(themes[j]))
        /\ \A t \in all \ Range(themes) :
             \A i \in 1..Len(themes) : Dominates(ClusterOf(themes[i]), ClusterOf(t))
        /\ (given = <<SizedCluster("seven", 5, 7, 7), SizedCluster("nine", 5, 9, 9),
                      SizedCluster("pair", 2, 10, 10)>>)
             => themes = <<"nine", "seven", "pair">>

\* four clusters given, the smallest first and the two of 5 experts with
\* midpoints 7 and 9 in ascending order: three themes are returned, the
\* single expert's cluster is left out
C34_Witness ==
  /\ dominant.pc = "returned"
  /\ dominant.given.clusters =
       <<SizedCluster("single", 1, 4, 5), SizedCluster("seven", 5, 7, 7),
         SizedCluster("nine", 5, 9, 9), SizedCluster("pair", 2, 10, 10)>>
  /\ dominant.themes = <<"nine", "seven", "pair">>

\* C35: a RoundSynthesis stays as synthesizeRound produced it:
\* identifyDominantClusters leaves the synthesis it is given with the same
\* clusters in the same order.
C35_SynthesisUnchangedByIdentify ==
  dominant.pc = "returned" => dominant.synthesis = dominant.given

-----------------------------------------------------------------------------
(* Properties of the order of the calls of a round (checked under           *)
(* SpecFaults and Spec)                                                     *)

\* C36: in every round, whatever the order in which the concurrent calls
\* settle: the synthesis is made only when every expert's call of the round
\* has settled, a contrarian call exists only when the round's synthesis
\* has completed, and the round is added to the tracker only when every
\* contrarian call has settled.
C36_PhasesInOrder ==
  /\ [](synthesis # NoSynthesis =>
          /\ synthesis.round_number = round
          /\ Len(settled) = Len(experts)
          /\ \A i \in 1..Len(expertResults) : expertResults[i].status # "pending")
  /\ [](Len(contrarianResults) > 0 => synthesis # NoSynthesis)
  /\ [][synthesis' \notin {synthesis, NoSynthesis} =>
          \A i \in 1..Len(experts) : expertResults[i].status \in {"ok", "null"}]_vars
  /\ [][Len(roundHistory') > Len(roundHistory) =>
          /\ synthesis # NoSynthesis
          /\ roundHistory'[Len(roundHistory')] = synthesis
          /\ \A j \in 1..Len(contrarianResults) :
               contrarianResults[j].status \in {"ok", "null"}]_vars

\* round 2: the second expert's call settled before the first's, the
\* synthesis is made and the contrarian call is pending
C36_Witness ==
  /\ pc = "contrarians"
  /\ round = 2
  /\ settled = <<2, 1>>
  /\ synthesis.round_number = 2
  /\ Len(contrarianResults) = 1
  /\ contrarianResults[1].status = "pending"
  /\ Len(roundHistory) = 1

\* the place of an agent in the experts list
ExpertIndex(id) == CHOOSE i \in 1..Len(experts) : experts[i] = id

\* the responses are those of the experts whose call succeeded, in the
\* order of the experts list
InListOrder(responses) ==
  /\ \A a, b \in 1..Len(responses) :
       a < b => ExpertIndex(responses[a].agent_id) < ExpertIndex(responses[b].agent_id)
  /\ {responses[a].agent_id : a \in 1..Len(responses)}
       = {experts[i] : i \in {i \in 1..Len(expertResults) : expertResults[i].status = "ok"}}

\* C37: whatever the order in which the expert calls of a round complete,
\* the synthesis is made of the successful experts' responses in the order
\* of the experts list, the round's expertResponses are in that order, and
\* so are the expert_positions of the report.
C37_ResponsesInListOrder ==
  /\ [][(pc = "experts" /\ pc' = "contrarians") =>
          /\ synthesis'.participation_count
               = Cardinality({i \in 1..Len(expertResults) : expertResults[i].status = "ok"})
          /\ \A c \in 1..Len(synthesis'.clusters) :
               \A a, b \in 1..Len(synthesis'.clusters[c].expert_ids) :
                 a < b => ExpertIndex(synthesis'.clusters[c].expert_ids[a])
                            < ExpertIndex(synthesis'.clusters[c].expert_ids[b])]_vars
  /\ [][Len(roundResults') > Len(roundResults) =>
          InListOrder(roundResults'[Len(roundResults')].expertResponses)]_vars
  /\ [][(pc = "report" /\ pc' = "done") =>
          LET positions == report'.expert_positions
          IN  \A a, b \in 1..Len(positions) :
                a < b => ExpertIndex(positions[a].agent_id)
                           < ExpertIndex(positions[b].agent_id)]_vars

\* both experts answered, the second before the first; the synthesis made
\* of their responses clusters them in list order
C37_Witness ==
  /\ pc = "contrarians"
  /\ settled = <<2, 1>>
  /\ synthesis.participation_count = 2
  /\ Len(synthesis.clusters) = 1
  /\ synthesis.clusters[1].expert_ids = experts

\* C38: in every round n >= 2 of a run the expert requests carry the digest
\* of the synthesis of round n-1 of that run, which is the round the
\* tracker ingested last; in round 1 they carry no digest.
C38_DigestOfPreviousRound ==
  pc = "experts" =>
    IF round = 1 THEN synthesisContext = <<>>
    ELSE /\ Len(synthesisContext) = 1
         /\ synthesisContext[1].round_number = round - 1
         /\ synthesisContext[1] = formatSynthesisForReview(roundHistory[Len(roundHistory)])
         /\ synthesisContext[1].participation
              = Len(roundResults[round - 1].expertResponses)

\* round 3 of a run: the requests carry the digest of round 2
C38_Witness ==
  /\ pc = "experts"
  /\ round = 3
  /\ Len(synthesisContext) = 1
  /\ synthesisContext[1].round_number = 2
  /\ synthesisContext[1].clusters # <<>>

-----------------------------------------------------------------------------
(* Properties of the dashboard's run registry (checked under SpecDashboard) *)

\* C40: every 'end' event delivered on a stream of a run carries the run's
\* terminal status, 'completed' or 'error', and never 'running', on the
\* 'close' path and on the 'error' path of the process.
C40_EndCarriesTerminalStatus ==
  dashboard.pc = "registered" =>
    \A s \in 1..Len(dashboard.streams) :
      \A e \in 1..Len(dashboard.streams[s].events) :
        dashboard.streams[s].events[e].event = "end"
          => dashboard.streams[s].events[e].status \in {"completed", "error"}

-----------------------------------------------------------------------------
(* Properties of the termination label (checked under Spec) *)

\* C39: whenever the round loop was left because hasStableDivergence()
\* held after the last executed round, the report's termination_reason is
\* divergence_stable.
C39_DivergenceExitLabelled ==
  /\ [][(pc = "contrarians" /\ pc' = "report" /\ exit' = "diverged") =>
          /\ ~ hasConverged(Tracker')
          /\ calculateMetrics(Tracker').termination_reason = "divergence_stable"]_vars
  /\ []((pc = "done" /\ exit = "diverged" /\ report.status = "generated") =>
          /\ report.convergence_analysis.termination_reason = "divergence_stable"
          /\ GT(report.convergence_analysis.position_stability, 9, 10)
          /\ LT(report.convergence_analysis.consensus_clarity, 4, 10))

\* a report of a run that was left after its second round of three,
\* through the stable-divergence exit
C39_Witness ==
  /\ pc = "done"
  /\ exit = "diverged"
  /\ report.status = "generated"
  /\ maxRounds = 3
  /\ Len(report.round_history) = 2
  /\ report.convergence_analysis.termination_reason = "divergence_stable"

====
